---- MODULE Spec2Model ----
(***************************************************************************)
(* A model of the middle-end of the ku compiler: the build driver and its  *)
(* resolve-once / infer-once module walk, the resolver's descent (scope    *)
(* pairing, dotted-name peeling, privacy and capture checks), the type     *)
(* inferrer (constraint generation, unification, finalization) and the     *)
(* name mangler.  Each part has its own specification over its own group   *)
(* of variables; the variables of the other groups stay at their initial   *)
(* value.                                                                  *)
(***************************************************************************)
EXTENDS Integers, Sequences, FiniteSets, TLC

(***************************************************************************)
(* Bounds of the model.                                                    *)
(***************************************************************************)
NMods == 3

(***************************************************************************)
(* PART 1.  The build driver, Resolve and Infer (main.go, resolve.go,      *)
(* args.go).                                                               *)
(***************************************************************************)
VARIABLES
    uses,          \* input: use directives of each sub-module (module names)
    drvPc,         \* position of Context.Build
    pendMods,      \* modules the current driver loop still has to reach
    pendParts,     \* sub-modules of drvMod the inference loop has to reach
    drvMod,        \* module of the current iteration of a driver loop, 0: none
    hasMainFunc,   \* Build's local hasMainFunc
    runtimeLoaded, \* LoadRuntime has returned
    resolved,      \* Module.resolved
    inferred,      \* Submodule.inferred
    modScope,      \* Module.ModScope: "nil", "global" (fresh), "decls" (filled)
    useScope,      \* Submodule.UseScope: NoScope or the set of used modules
    methodLists,   \* per module: how often its methods were appended by a descent
    typedGen,      \* per sub-module: how often constraints were generated
    finalized,     \* per sub-module: how often Finalize assigned the types
    semChecked,    \* modules the lints have run on
    declsInserted, \* sub-modules whose top-level declarations were inserted
    descended,     \* sub-modules the resolver's descent has visited
    stack          \* call stack of Resolve and Infer activations, top first

drvVars == <<uses, drvPc, pendMods, pendParts, drvMod, hasMainFunc,
             runtimeLoaded, resolved, inferred, modScope, useScope,
             methodLists, typedGen, finalized, semChecked, declsInserted,
             descended, stack>>

(***************************************************************************)
(* PART 2 variables.  The resolver's handling of one name: a type name, a  *)
(* variable access or the function expression of a call (resolve.go).      *)
(***************************************************************************)
VARIABLES
    nmPc,      \* position in ResolveNode / ResolveType, "idle" outside this part
    nmKind,    \* the node the name occurs in
    nmVisit,   \* the node ResolveNode is handling now
    nmLen,     \* number of segments of the name as written
    nmName,    \* n.Name / vae.Name / t.Name: the name as the loop has cut it
    nmEnv,     \* what Scope.GetIdent has answered so far, by number of segments
    nmCurFn,   \* Resolver.currentFunction()
    nmIdent,   \* the local ident
    nmWrap,    \* the local wrap: Member of each StructAccessExpr reached from it
    nmFnWrap,  \* the wrappers left in CallExpr.Function
    nmPeels,   \* iterations of the peel loop so far
    nmNode,    \* the node left in *node
    nmBound,   \* the declaration the node was bound to
    nmLog,     \* messages written by log.Errorln
    nmArguments, \* CallExpr.Arguments, each argument a number
    nmEnum     \* the EnumLiteral built for the node, <<>> if none

nmVars == <<nmPc, nmKind, nmVisit, nmLen, nmName, nmEnv, nmCurFn, nmIdent,
            nmWrap, nmFnWrap, nmPeels, nmNode, nmBound, nmLog, nmArguments,
            nmEnum>>

(***************************************************************************)
(* PART 3 variables.  The resolver's descent over one sub-module           *)
(* (part_000, resolve.go): the scopes and the stack of functions.          *)
(***************************************************************************)
VARIABLES
    vsPc,      \* "start", "run", "returned", "panic"; "idle" outside this part
    vsTodo,    \* what the visitor still has to do, first thing first
    vsScope,   \* Resolver.curScope: the Function of every scope above the module scope
    vsFuncs,   \* Resolver.functionStack
    vsSeen     \* the shapes met so far

vsVars == <<vsPc, vsTodo, vsScope, vsFuncs, vsSeen>>

(***************************************************************************)
(* PART 4 variables.  The mangler on two symbols (mangle.go).              *)
(***************************************************************************)
VARIABLES
    mgSyms,    \* the two symbols, <<>> outside this part
    mgNames    \* their mangled names, "" while not computed

mgVars == <<mgSyms, mgNames>>

(***************************************************************************)
(* PART 5 variables.  One Inferrer on one sub-module (args.go).            *)
(***************************************************************************)
VARIABLES
    infPc,                \* position inside Infer: idle, visit, done, fatal
    infFunction,          \* Function.Type of the function the sub-module declares
    infVariables,         \* Variable.Type of each variable declared so far
    infTypeds,            \* Inferrer.Typeds, by id; IdCount is its length
    infTypedLookup,       \* Inferrer.TypedLookup of each variable, 0: absent
    infConstraints,       \* Inferrer.Constraints
    infSimpleConstraints, \* Inferrer.SimpleConstraints
    infDecls,             \* the VariableDecl nodes that have an assignment
    infVisited            \* number of statements the visitor has reached

infVars == <<infPc, infFunction, infVariables, infTypeds, infTypedLookup,
             infConstraints, infSimpleConstraints, infDecls, infVisited>>

(***************************************************************************)
(* PART 6 variables.  ExtractTypeVariable on one pattern and one value     *)
(* (args.go).                                                              *)
(***************************************************************************)
VARIABLES
    exPc,       \* input, extracted, error, applied
    exPattern,  \* the pattern type
    exValue,    \* the value type
    exTypes,    \* the map ExtractTypeVariable returned
    exApplied   \* the pattern with the map applied to it

exVars == <<exPc, exPattern, exValue, exTypes, exApplied>>

(***************************************************************************)
(* PART 7 variables.  The receiver fix-up of Finalize on the calls of one  *)
(* sub-module (args.go).                                                   *)
(***************************************************************************)
VARIABLES
    rcIdx,      \* idx of the loop over the typed nodes, from 1
    rcTypeds,   \* the typed nodes; a call has ReceiverAccess and recType
    rcSource    \* the typed nodes as they were before the loop

rcVars == <<rcIdx, rcTypeds, rcSource>>

(***************************************************************************)
(* PART 8 variables.  Methods and static methods attached to named types  *)
(* while one module is resolved (resolve.go).                              *)
(***************************************************************************)
VARIABLES
    mtPc,            \* decls, descent, post, done, fatal
    mtNodes,         \* the FunctionDecl nodes of the module, in order
    mtIdx,           \* the node the descent is at
    mtMethods,       \* NamedType.Methods, by named type
    mtStaticMethods  \* NamedType.StaticMethods, by named type

mtVars == <<mtPc, mtNodes, mtIdx, mtMethods, mtStaticMethods>>

(***************************************************************************)
(* PART 9 variables.  Declarations inserted into scopes while one module   *)
(* is resolved (resolve.go).                                               *)
(***************************************************************************)
VARIABLES
    dcPc,        \* decls, descent, done, fatal
    dcNodes,     \* the top-level nodes of the module, sub-module by sub-module
    dcIdx,       \* number of nodes the running loop has handled
    dcModScope,  \* Module.ModScope
    dcCScope,    \* cModule.ModScope
    dcCurScope,  \* the scope VisitSubmodule has entered
    dcFunction   \* the function the descent has visited last, <<>> if none

dcVars == <<dcPc, dcNodes, dcIdx, dcModScope, dcCScope, dcCurScope, dcFunction>>

(***************************************************************************)
(* PART 10 variables.  The mangled name of a type and of a pointer to it   *)
(* (mangle.go).                                                            *)
(***************************************************************************)
VARIABLES
    mnPc,          \* the names mangled so far: a subset of {"type", "pointer"}
    mnType,        \* the type T
    mnLevels,      \* pointer levels put on T
    mnGcon,        \* the generic context
    mnName,        \* the mangled name of T, <<>> before it is computed
    mnPointerName  \* the mangled name of the pointer to T

mnVars == <<mnPc, mnType, mnLevels, mnGcon, mnName, mnPointerName>>

(***************************************************************************)
(* PART 11 variables.  Reading the modules of a build and the check for    *)
(* cyclic dependencies (main.go, parseFiles and Build).                    *)
(***************************************************************************)
VARIABLES
    psPc,             \* runtime, read, construct, resolve, infer, done, exit
    psDeps,           \* what the parser reports: the modules each module uses
    psModulesToRead,  \* Context.modulesToRead
    psIdx,            \* index of the running loop, from 1
    psModules,        \* Context.modules
    psDepGraph,       \* Context.depGraph: the dependencies added
    psCalled          \* the calls made so far: <<function, module>>

psVars == <<psPc, psDeps, psModulesToRead, psIdx, psModules, psDepGraph, psCalled>>

(***************************************************************************)
(* PART 12 variables.  Submodule.IterNodes under the last loop of Finalize *)
(* (part_000 and args.go): the goroutine of the channelingVisitor and the  *)
(* loop that receives from its channel.                                    *)
(***************************************************************************)
VARIABLES
    itPc,        \* the goroutine: start (not spawned), run, ended
    itSubmodule, \* input: the node list of the sub-module
    itTodo,      \* what the goroutine has left to do: visits and field writes
    itCons,      \* the loop of Finalize: call, recv, read, set, done
    itCur,       \* the node the loop holds
    itRecv       \* the nodes received so far, by id

itVars == <<itPc, itSubmodule, itTodo, itCons, itCur, itRecv>>

(***************************************************************************)
(* PART 13 variables.  Inferrer.Solve on a list of constraints, one        *)
(* SolveStep at a time (args.go 1050-1231).                                *)
(***************************************************************************)
VARIABLES
    slPc,          \* start, loop, done; cutoff: MaxSolveSteps steps were made
    slConstraints, \* input: Inferrer.Constraints
    slStack,       \* the local stack
    slSubs,        \* the local substitutions
    slElement,     \* the constraint the last SolveStep was called on
    slPushed,      \* the constraints the last SolveStep appended to the stack
    slHeads        \* the stack at every test of the loop condition so far

slVars == <<slPc, slConstraints, slStack, slSubs, slElement, slPushed, slHeads>>

(***************************************************************************)
(* PART 14 variables.  The type variable ids of one Inferrer (args.go):    *)
(* HandleTyped, GetDiscardingId and the loop of Finalize over the ids.     *)
(***************************************************************************)
VARIABLES
    idPc,          \* visit, touchups, done, panic
    idCount,       \* Inferrer.IdCount
    idTypeds,      \* Inferrer.Typeds: a map from ids to typed nodes
    idTypedLookup, \* Inferrer.TypedLookup: a map from typed nodes to ids
    idVariables,   \* the variables declared so far
    idVisited,     \* the statements visited so far
    idIdx          \* idx of the loop of Finalize

idVars == <<idPc, idCount, idTypeds, idTypedLookup, idVariables, idVisited, idIdx>>

(***************************************************************************)
(* PART 15 variables.  The module lookup (ast/module.go) and the reading   *)
(* loop of parseFiles (main.go) over module names of several parts.        *)
(***************************************************************************)
VARIABLES
    lkPc,            \* read, resolve, done, panic
    lkUses,          \* the use directives of the file of every module, in order
    lkModulesToRead, \* Context.modulesToRead
    lkIdx,           \* i of the reading loop
    lkChildren,      \* the nodes of Context.moduleLookup, each by its path
    lkModule,        \* ModuleLookup.Module of every node: a module name or nil
    lkRead,          \* how often the files of a module have been read
    lkResolved       \* the use directives resolved: pairs <<module, index>>

lkVars == <<lkPc, lkUses, lkModulesToRead, lkIdx, lkChildren, lkModule, lkRead, lkResolved>>

(***************************************************************************)
(* PART 16 variables.  A method call whose callee has no type when the     *)
(* call is visited (args.go, HandleTyped and SolveStep).                   *)
(***************************************************************************)
VARIABLES
    clPc,            \* visit, solve, done
    clCallee,        \* the function type of the callee
    clFnType,        \* the function type HandleTyped builds for the call
    clArguments,     \* the ids of the arguments of the call
    clConstraints,   \* Inferrer.Constraints
    clSubstitutions  \* the result of Solve

clVars == <<clPc, clCallee, clFnType, clArguments, clConstraints, clSubstitutions>>

(***************************************************************************)
(* PART 17 variables.  lexer.skipBlockComment (lexer/lexer.go).            *)
(***************************************************************************)
VARIABLES
    lxPc,       \* start, loop, done (true), none (false), error
    lxContents, \* Sourcefile.Contents, a sequence of characters
    lxEndPos,   \* lexer.endPos, counted from 0
    lxDepth     \* depth of skipBlockComment

lxVars == <<lxPc, lxContents, lxEndPos, lxDepth>>

vars == <<drvVars, nmVars, vsVars, mgVars, infVars, exVars, rcVars, mtVars, dcVars, mnVars, psVars, itVars, slVars, idVars, lkVars, clVars, lxVars>>

\* The name part at rest.
NmIdle ==
    /\ nmPc = "idle" /\ nmKind = "" /\ nmVisit = "" /\ nmLen = 0
    /\ nmName = <<>> /\ nmEnv = <<>> /\ nmCurFn = "nil" /\ nmIdent = <<>>
    /\ nmWrap = <<>> /\ nmFnWrap = <<>> /\ nmPeels = 0 /\ nmNode = ""
    /\ nmBound = <<>> /\ nmLog = {} /\ nmArguments = <<>> /\ nmEnum = <<>>

\* The descent part at rest.
VsIdle ==
    /\ vsPc = "idle" /\ vsTodo = <<>> /\ vsScope = <<>> /\ vsFuncs = <<>>
    /\ vsSeen = {}

\* The mangler part at rest.
MgIdle == mgSyms = <<>> /\ mgNames = <<>>

\* The inferrer part at rest.
InfIdle ==
    /\ infPc = "idle" /\ infFunction = <<>> /\ infVariables = <<>>
    /\ infTypeds = <<>> /\ infTypedLookup = <<>> /\ infConstraints = <<>>
    /\ infSimpleConstraints = <<>> /\ infDecls = <<>> /\ infVisited = 0

\* The extraction part at rest.
ExIdle ==
    /\ exPc = "idle" /\ exPattern = <<>> /\ exValue = <<>> /\ exTypes = <<>>
    /\ exApplied = <<>>

\* The receiver part at rest.
RcIdle == rcIdx = 0 /\ rcTypeds = <<>> /\ rcSource = <<>>

\* The method part at rest.
MtIdle ==
    /\ mtPc = "idle" /\ mtNodes = <<>> /\ mtIdx = 0 /\ mtMethods = <<>>
    /\ mtStaticMethods = <<>>

\* The declaration part at rest.
DcIdle ==
    /\ dcPc = "idle" /\ dcNodes = <<>> /\ dcIdx = 0 /\ dcModScope = <<>>
    /\ dcCScope = <<>> /\ dcCurScope = <<>> /\ dcFunction = <<>>

\* The type mangling part at rest.
MnIdle ==
    /\ mnPc = {"idle"} /\ mnType = <<>> /\ mnLevels = 0 /\ mnGcon = <<>>
    /\ mnName = <<>> /\ mnPointerName = <<>>

\* The reading part at rest.
PsIdle ==
    /\ psPc = "idle" /\ psDeps = <<>> /\ psModulesToRead = <<>> /\ psIdx = 0
    /\ psModules = <<>> /\ psDepGraph = {} /\ psCalled = {}

ItIdle ==
    /\ itPc = "idle" /\ itSubmodule = <<>> /\ itTodo = <<>>
    /\ itCons = "idle" /\ itCur = <<>> /\ itRecv = <<>>

SlIdle ==
    /\ slPc = "idle" /\ slConstraints = <<>> /\ slStack = <<>>
    /\ slSubs = <<>> /\ slElement = <<>> /\ slPushed = <<>> /\ slHeads = <<>>

IdIdle ==
    /\ idPc = "idle" /\ idCount = 0 /\ idTypeds = <<>> /\ idTypedLookup = <<>>
    /\ idVariables = 0 /\ idVisited = 0 /\ idIdx = 0

LkIdle ==
    /\ lkPc = "idle" /\ lkUses = <<>> /\ lkModulesToRead = <<>> /\ lkIdx = 0
    /\ lkChildren = {} /\ lkModule = <<>> /\ lkRead = <<>> /\ lkResolved = {}

ClIdle ==
    /\ clPc = "idle" /\ clCallee = <<>> /\ clFnType = <<>> /\ clArguments = <<>>
    /\ clConstraints = <<>> /\ clSubstitutions = <<>>

LxIdle ==
    /\ lxPc = "idle" /\ lxContents = <<>> /\ lxEndPos = 0 /\ lxDepth = 0

\* What each part leaves alone.
notDrv == <<nmVars, vsVars, mgVars, infVars, exVars, rcVars, mtVars, dcVars, mnVars, psVars, itVars, slVars, idVars, lkVars, clVars, lxVars>>

notNm == <<drvVars, vsVars, mgVars, infVars, exVars, rcVars, mtVars, dcVars, mnVars, psVars, itVars, slVars, idVars, lkVars, clVars, lxVars>>

notVs == <<drvVars, nmVars, mgVars, infVars, exVars, rcVars, mtVars, dcVars, mnVars, psVars, itVars, slVars, idVars, lkVars, clVars, lxVars>>

notMg == <<drvVars, nmVars, vsVars, infVars, exVars, rcVars, mtVars, dcVars, mnVars, psVars, itVars, slVars, idVars, lkVars, clVars, lxVars>>

notInf == <<drvVars, nmVars, vsVars, mgVars, exVars, rcVars, mtVars, dcVars, mnVars, psVars, itVars, slVars, idVars, lkVars, clVars, lxVars>>

notEx == <<drvVars, nmVars, vsVars, mgVars, infVars, rcVars, mtVars, dcVars, mnVars, psVars, itVars, slVars, idVars, lkVars, clVars, lxVars>>

notRc == <<drvVars, nmVars, vsVars, mgVars, infVars, exVars, mtVars, dcVars, mnVars, psVars, itVars, slVars, idVars, lkVars, clVars, lxVars>>

notMt == <<drvVars, nmVars, vsVars, mgVars, infVars, exVars, rcVars, dcVars, mnVars, psVars, itVars, slVars, idVars, lkVars, clVars, lxVars>>

notDc == <<drvVars, nmVars, vsVars, mgVars, infVars, exVars, rcVars, mtVars, mnVars, psVars, itVars, slVars, idVars, lkVars, clVars, lxVars>>

notMn == <<drvVars, nmVars, vsVars, mgVars, infVars, exVars, rcVars, mtVars, dcVars, psVars, itVars, slVars, idVars, lkVars, clVars, lxVars>>

notPs == <<drvVars, nmVars, vsVars, mgVars, infVars, exVars, rcVars, mtVars, dcVars, mnVars, itVars, slVars, idVars, lkVars, clVars, lxVars>>

notIt == <<drvVars, nmVars, vsVars, mgVars, infVars, exVars, rcVars, mtVars, dcVars, mnVars, psVars, slVars, idVars, lkVars, clVars, lxVars>>

notSl == <<drvVars, nmVars, vsVars, mgVars, infVars, exVars, rcVars, mtVars, dcVars, mnVars, psVars, itVars, idVars, lkVars, clVars, lxVars>>

notId == <<drvVars, nmVars, vsVars, mgVars, infVars, exVars, rcVars, mtVars, dcVars, mnVars, psVars, itVars, slVars, lkVars, clVars, lxVars>>

notLk == <<drvVars, nmVars, vsVars, mgVars, infVars, exVars, rcVars, mtVars, dcVars, mnVars, psVars, itVars, slVars, idVars, clVars, lxVars>>

notCl == <<drvVars, nmVars, vsVars, mgVars, infVars, exVars, rcVars, mtVars, dcVars, mnVars, psVars, itVars, slVars, idVars, lkVars, lxVars>>

notLx == <<drvVars, nmVars, vsVars, mgVars, infVars, exVars, rcVars, mtVars, dcVars, mnVars, psVars, itVars, slVars, idVars, lkVars, clVars>>

Mods == 1..NMods

FileNames == {"x", "y"}

\* Module.Parts: the second module is a directory of two files, the others of
\* one.
PartsOf(m) == IF m = 2 THEN FileNames ELSE {"x"}

Subs == {s \in Mods \X FileNames : s[2] \in PartsOf(s[1])}

NoScope == {0}

\* The import graph is acyclic (parseFiles exits on a cycle): the modules are
\* numbered so that a module only uses modules with a larger number.
UsePairs == {p \in Subs \X Mods : p[2] > p[1][1]}

AcyclicUses == {[s \in Subs |-> {d \in Mods : <<s, d>> \in E}] :
                  E \in SUBSET UsePairs}

Frame(fn, id, pc) ==
    [fn |-> fn, id |-> id, pc |-> pc, outer |-> {}, curPart |-> "",
     curMod |-> 0, inner |-> {}]

Top == Head(stack)

DrvInit ==
    /\ uses \in AcyclicUses
    /\ drvPc = "runtime"
    /\ pendMods = {}
    /\ pendParts = {}
    /\ drvMod = 0
    /\ hasMainFunc = FALSE
    /\ runtimeLoaded = FALSE
    /\ resolved = [m \in Mods |-> FALSE]
    /\ inferred = [s \in Subs |-> FALSE]
    /\ modScope = [m \in Mods |-> "nil"]
    /\ useScope = [s \in Subs |-> NoScope]
    /\ methodLists = [m \in Mods |-> 0]
    /\ typedGen = [s \in Subs |-> 0]
    /\ finalized = [s \in Subs |-> 0]
    /\ semChecked = {}
    /\ declsInserted = {}
    /\ descended = {}
    /\ stack = <<>>

\* The driver part at rest.
DrvIdle ==
    /\ uses = [s \in Subs |-> {}]
    /\ drvPc = "idle"
    /\ pendMods = {}
    /\ pendParts = {}
    /\ drvMod = 0
    /\ hasMainFunc = FALSE
    /\ runtimeLoaded = FALSE
    /\ resolved = [m \in Mods |-> FALSE]
    /\ inferred = [s \in Subs |-> FALSE]
    /\ modScope = [m \in Mods |-> "nil"]
    /\ useScope = [s \in Subs |-> NoScope]
    /\ methodLists = [m \in Mods |-> 0]
    /\ typedGen = [s \in Subs |-> 0]
    /\ finalized = [s \in Subs |-> 0]
    /\ semChecked = {}
    /\ declsInserted = {}
    /\ descended = {}
    /\ stack = <<>>

Init == DrvInit /\ NmIdle /\ VsIdle /\ MgIdle /\ InfIdle /\ ExIdle /\ RcIdle /\ MtIdle /\ DcIdle /\ MnIdle /\ PsIdle /\ ItIdle /\ SlIdle /\ IdIdle /\ LkIdle /\ ClIdle /\ LxIdle

\* Build: LoadRuntime, then parseFiles (the modules are loaded and acyclic).
LoadRuntime ==
    /\ drvPc = "runtime"
    /\ runtimeLoaded' = TRUE
    /\ drvPc' = "resolve"
    /\ pendMods' = Mods
    /\ UNCHANGED <<uses, pendParts, drvMod, hasMainFunc, resolved,
                   inferred, modScope, useScope, methodLists, typedGen,
                   finalized, semChecked, stack, declsInserted, descended>>
    /\ UNCHANGED notDrv

\* main.go 135-136: the next module of v.modules is handed to ast.Resolve.
BuildResolveCall ==
    /\ drvPc = "resolve" /\ stack = <<>> /\ drvMod = 0
    /\ \E m \in pendMods :
         /\ drvMod' = m
         /\ pendMods' = pendMods \ {m}
         /\ stack' = <<Frame("Resolve", m, "entry")>>
    /\ UNCHANGED <<uses, drvPc, pendParts, hasMainFunc, runtimeLoaded,
                   resolved, inferred, modScope, useScope, methodLists,
                   typedGen, finalized, semChecked, declsInserted, descended>>
    /\ UNCHANGED notDrv

\* main.go 138-142: the module scope is searched for a public function main
\* (found: whether the module declares one, an input).
BuildResolveRet ==
    /\ drvPc = "resolve" /\ stack = <<>> /\ drvMod # 0
    /\ \E found \in BOOLEAN : hasMainFunc' = (hasMainFunc \/ found)
    /\ drvMod' = 0
    /\ UNCHANGED <<uses, drvPc, pendMods, pendParts, runtimeLoaded,
                   resolved, inferred, modScope, useScope, methodLists,
                   typedGen, finalized, semChecked, stack,
                   declsInserted, descended>>
    /\ UNCHANGED notDrv

\* main.go 147-150: without a main function the build exits.
BuildResolveEnd ==
    /\ drvPc = "resolve" /\ stack = <<>> /\ drvMod = 0 /\ pendMods = {}
    /\ IF hasMainFunc
         THEN drvPc' = "infer" /\ pendMods' = Mods
         ELSE drvPc' = "exit" /\ pendMods' = pendMods
    /\ UNCHANGED <<uses, pendParts, drvMod, hasMainFunc,
                   runtimeLoaded, resolved, inferred, modScope, useScope,
                   methodLists, typedGen, finalized, semChecked, stack,
                   declsInserted, descended>>
    /\ UNCHANGED notDrv

\* main.go 166: the outer loop of the inference phase.
BuildInferModule ==
    /\ drvPc = "infer" /\ stack = <<>> /\ drvMod = 0
    /\ \E m \in pendMods :
         /\ drvMod' = m
         /\ pendMods' = pendMods \ {m}
         /\ pendParts' = PartsOf(m)
    /\ UNCHANGED <<uses, drvPc, hasMainFunc, runtimeLoaded, resolved,
                   inferred, modScope, useScope, methodLists, typedGen,
                   finalized, semChecked, stack, declsInserted, descended>>
    /\ UNCHANGED notDrv

\* main.go 167-168: the inner loop over module.Parts (a Go map: any order).
BuildInferCall ==
    /\ drvPc = "infer" /\ stack = <<>> /\ drvMod # 0
    /\ \E f \in pendParts :
         /\ pendParts' = pendParts \ {f}
         /\ stack' = <<Frame("Infer", <<drvMod, f>>, "entry")>>
    /\ UNCHANGED <<uses, drvPc, pendMods, drvMod, hasMainFunc,
                   runtimeLoaded, resolved, inferred, modScope, useScope,
                   methodLists, typedGen, finalized, semChecked,
                   declsInserted, descended>>
    /\ UNCHANGED notDrv

BuildInferModuleEnd ==
    /\ drvPc = "infer" /\ stack = <<>> /\ drvMod # 0 /\ pendParts = {}
    /\ drvMod' = 0
    /\ UNCHANGED <<uses, drvPc, pendMods, pendParts, hasMainFunc,
                   runtimeLoaded, resolved, inferred, modScope, useScope,
                   methodLists, typedGen, finalized, semChecked, stack,
                   declsInserted, descended>>
    /\ UNCHANGED notDrv

BuildInferEnd ==
    /\ drvPc = "infer" /\ stack = <<>> /\ drvMod = 0 /\ pendMods = {}
    /\ drvPc' = "semcheck"
    /\ pendMods' = Mods
    /\ UNCHANGED <<uses, pendParts, drvMod, hasMainFunc,
                   runtimeLoaded, resolved, inferred, modScope, useScope,
                   methodLists, typedGen, finalized, semChecked, stack,
                   declsInserted, descended>>
    /\ UNCHANGED notDrv

\* main.go 181-185: the lints, module by module.
BuildSemCheck ==
    /\ drvPc = "semcheck"
    /\ \E m \in pendMods :
         /\ pendMods' = pendMods \ {m}
         /\ semChecked' = semChecked \cup {m}
    /\ UNCHANGED <<uses, drvPc, pendParts, drvMod, hasMainFunc,
                   runtimeLoaded, resolved, inferred, modScope, useScope,
                   methodLists, typedGen, finalized, stack,
                   declsInserted, descended>>
    /\ UNCHANGED notDrv

BuildDone ==
    /\ drvPc = "semcheck" /\ pendMods = {}
    /\ drvPc' = "done"
    /\ UNCHANGED <<uses, pendMods, pendParts, drvMod, hasMainFunc,
                   runtimeLoaded, resolved, inferred, modScope, useScope,
                   methodLists, typedGen, finalized, semChecked, stack,
                   declsInserted, descended>>
    /\ UNCHANGED notDrv

(***************************************************************************)
(* ast.Resolve and the Resolver's phases, one activation per stack frame.  *)
(***************************************************************************)
OnTop(fn, pc) == stack # <<>> /\ Top.fn = fn /\ Top.pc = pc

Replace(frame) == <<frame>> \o Tail(stack)

\* ResolveEntry without the resolved guard of resolve.go 62-64.
ResolveEntryNoGuard ==
    /\ OnTop("Resolve", "entry")
    /\ resolved' = [resolved EXCEPT ![Top.id] = TRUE]
    /\ modScope' = [modScope EXCEPT ![Top.id] = "global"]
    /\ stack' = Replace([Top EXCEPT !.pc = "uses", !.outer = PartsOf(Top.id)])
    /\ UNCHANGED <<uses, drvPc, pendMods, pendParts, drvMod,
                   hasMainFunc, runtimeLoaded, inferred, useScope, methodLists,
                   typedGen, finalized, semChecked, declsInserted, descended>>
    /\ UNCHANGED notDrv

\* resolve.go 61-84: the resolved guard, then the fresh module scope.
ResolveEntry ==
    /\ OnTop("Resolve", "entry")
    /\ IF resolved[Top.id]
         THEN /\ stack' = Tail(stack)
              /\ UNCHANGED <<resolved, modScope>>
         ELSE /\ resolved' = [resolved EXCEPT ![Top.id] = TRUE]
              /\ modScope' = [modScope EXCEPT ![Top.id] = "global"]
              /\ stack' = Replace([Top EXCEPT !.pc = "uses",
                                              !.outer = PartsOf(Top.id)])
    /\ UNCHANGED <<uses, drvPc, pendMods, pendParts, drvMod,
                   hasMainFunc, runtimeLoaded, inferred, useScope, methodLists,
                   typedGen, finalized, semChecked, declsInserted, descended>>
    /\ UNCHANGED notDrv

\* resolve.go 95-96: the next sub-module gets a fresh use scope.
ResolveUsedSubmod ==
    /\ OnTop("Resolve", "uses") /\ Top.curPart = ""
    /\ IF Top.outer = {}
         THEN /\ stack' = Replace([Top EXCEPT !.pc = "decls",
                                              !.outer = PartsOf(Top.id)])
              /\ UNCHANGED useScope
         ELSE \E f \in Top.outer :
                /\ useScope' = [useScope EXCEPT ![<<Top.id, f>>] = {}]
                /\ stack' = Replace([Top EXCEPT !.outer = Top.outer \ {f},
                                                !.curPart = f,
                                                !.inner = uses[<<Top.id, f>>]])
    /\ UNCHANGED <<uses, drvPc, pendMods, pendParts, drvMod,
                   hasMainFunc, runtimeLoaded, resolved, inferred, modScope,
                   methodLists, typedGen, finalized, semChecked,
                   declsInserted, descended>>
    /\ UNCHANGED notDrv

\* ResolveUse without the call of Resolve on the used module (resolve.go 105).
ResolveUseNoCall ==
    /\ OnTop("Resolve", "uses") /\ Top.curPart # ""
    /\ IF Top.inner = {}
         THEN stack' = Replace([Top EXCEPT !.curPart = ""])
         ELSE \E u \in Top.inner :
                stack' = Replace([Top EXCEPT !.pc = "used", !.curMod = u,
                                             !.inner = Top.inner \ {u}])
    /\ UNCHANGED <<uses, drvPc, pendMods, pendParts, drvMod,
                   hasMainFunc, runtimeLoaded, resolved, inferred, modScope,
                   useScope, methodLists, typedGen, finalized, semChecked,
                   declsInserted, descended>>
    /\ UNCHANGED notDrv

\* resolve.go 98-105: the next use directive: Resolve is called on the used module.
ResolveUse ==
    /\ OnTop("Resolve", "uses") /\ Top.curPart # ""
    /\ IF Top.inner = {}
         THEN stack' = Replace([Top EXCEPT !.curPart = ""])
         ELSE \E u \in Top.inner :
                stack' = <<Frame("Resolve", u, "entry")>> \o
                         Replace([Top EXCEPT !.pc = "used", !.curMod = u,
                                             !.inner = Top.inner \ {u}])
    /\ UNCHANGED <<uses, drvPc, pendMods, pendParts, drvMod,
                   hasMainFunc, runtimeLoaded, resolved, inferred, modScope,
                   useScope, methodLists, typedGen, finalized, semChecked,
                   declsInserted, descended>>
    /\ UNCHANGED notDrv

\* resolve.go 109: the used module is entered in the sub-module's use scope.
ResolveUseModule ==
    /\ OnTop("Resolve", "used")
    /\ useScope' = [useScope EXCEPT ![<<Top.id, Top.curPart>>] =
                                       @ \cup {Top.curMod}]
    /\ stack' = Replace([Top EXCEPT !.pc = "uses", !.curMod = 0])
    /\ UNCHANGED <<uses, drvPc, pendMods, pendParts, drvMod,
                   hasMainFunc, runtimeLoaded, resolved, inferred, modScope,
                   methodLists, typedGen, finalized, semChecked,
                   declsInserted, descended>>
    /\ UNCHANGED notDrv

\* ResolveTopLevelDecls that goes on to the descent after the declarations of
\* one sub-module.
ResolveTopLevelDeclsOnePart ==
    /\ OnTop("Resolve", "decls")
    /\ \E f \in PartsOf(Top.id) :
         declsInserted' = declsInserted \cup {<<Top.id, f>>}
    /\ modScope' = [modScope EXCEPT ![Top.id] = "decls"]
    /\ stack' = Replace([Top EXCEPT !.pc = "descent",
                                    !.outer = PartsOf(Top.id)])
    /\ UNCHANGED <<uses, drvPc, pendMods, pendParts, drvMod,
                   hasMainFunc, runtimeLoaded, resolved, inferred, useScope,
                   methodLists, typedGen, finalized, semChecked, descended>>
    /\ UNCHANGED notDrv

\* resolve.go 118-167: the top-level declarations of the next sub-module (a Go
\* map: any order) are inserted in the module scope; after the last one the
\* static methods are attached and ResolveTopLevelDecls returns.
ResolveTopLevelDecls ==
    /\ OnTop("Resolve", "decls")
    /\ IF Top.outer = {}
         THEN /\ stack' = Replace([Top EXCEPT !.pc = "descent",
                                              !.outer = PartsOf(Top.id)])
              /\ UNCHANGED <<modScope, declsInserted>>
         ELSE \E f \in Top.outer :
                /\ declsInserted' = declsInserted \cup {<<Top.id, f>>}
                /\ modScope' = [modScope EXCEPT ![Top.id] = "decls"]
                /\ stack' = Replace([Top EXCEPT !.outer = Top.outer \ {f}])
    /\ UNCHANGED <<uses, drvPc, pendMods, pendParts, drvMod,
                   hasMainFunc, runtimeLoaded, resolved, inferred, useScope,
                   methodLists, typedGen, finalized, semChecked, descended>>
    /\ UNCHANGED notDrv

\* resolve.go 169-175, 245-253, 91: the descent visits the next sub-module (any
\* order); after the last one the methods are on their named types and
\* Resolve returns.
ResolveDescent ==
    /\ OnTop("Resolve", "descent")
    /\ IF Top.outer = {}
         THEN /\ methodLists' = [methodLists EXCEPT ![Top.id] = @ + 1]
              /\ stack' = Tail(stack)
              /\ UNCHANGED descended
         ELSE \E f \in Top.outer :
                /\ descended' = descended \cup {<<Top.id, f>>}
                /\ stack' = Replace([Top EXCEPT !.outer = Top.outer \ {f}])
                /\ UNCHANGED methodLists
    /\ UNCHANGED <<uses, drvPc, pendMods, pendParts, drvMod,
                   hasMainFunc, runtimeLoaded, resolved, inferred, modScope,
                   useScope, typedGen, finalized, semChecked, declsInserted>>
    /\ UNCHANGED notDrv

(***************************************************************************)
(* ast.Infer, one activation per stack frame.                              *)
(***************************************************************************)
\* args.go 440-447: the inferred guard; UsedModules of the use scope is read.
InferEntry ==
    /\ OnTop("Infer", "entry")
    /\ IF inferred[Top.id]
         THEN /\ stack' = Tail(stack)
              /\ UNCHANGED <<inferred, drvPc>>
         ELSE /\ inferred' = [inferred EXCEPT ![Top.id] = TRUE]
              /\ IF useScope[Top.id] = NoScope
                   THEN drvPc' = "panic" /\ stack' = <<>>
                   ELSE /\ drvPc' = drvPc
                        /\ stack' = Replace([Top EXCEPT
                                               !.pc = "deps",
                                               !.outer = useScope[Top.id]])
    /\ UNCHANGED <<uses, pendMods, pendParts, drvMod, hasMainFunc,
                   runtimeLoaded, resolved, modScope, useScope, methodLists,
                   typedGen, finalized, semChecked, declsInserted, descended>>
    /\ UNCHANGED notDrv

\* args.go 447: the next used module (a Go map: any order).
InferUsedModule ==
    /\ OnTop("Infer", "deps") /\ Top.curMod = 0
    /\ IF Top.outer = {}
         THEN stack' = Replace([Top EXCEPT !.pc = "visit"])
         ELSE \E u \in Top.outer :
                stack' = Replace([Top EXCEPT !.outer = Top.outer \ {u},
                                             !.curMod = u,
                                             !.inner = PartsOf(u)])
    /\ UNCHANGED <<uses, drvPc, pendMods, pendParts, drvMod,
                   hasMainFunc, runtimeLoaded, resolved, inferred, modScope,
                   useScope, methodLists, typedGen, finalized, semChecked,
                   declsInserted, descended>>
    /\ UNCHANGED notDrv

\* InferUsedPart that calls Infer on one sub-module of the used module only.
InferUsedPartOnlyOne ==
    /\ OnTop("Infer", "deps") /\ Top.curMod # 0
    /\ IF Top.inner = {}
         THEN stack' = Replace([Top EXCEPT !.curMod = 0])
         ELSE \E f \in Top.inner :
                stack' = <<Frame("Infer", <<Top.curMod, f>>, "entry")>> \o
                         Replace([Top EXCEPT !.inner = {}])
    /\ UNCHANGED <<uses, drvPc, pendMods, pendParts, drvMod,
                   hasMainFunc, runtimeLoaded, resolved, inferred, modScope,
                   useScope, methodLists, typedGen, finalized, semChecked,
                   declsInserted, descended>>
    /\ UNCHANGED notDrv

\* args.go 448-449: Infer is called on the next sub-module of the used module.
InferUsedPart ==
    /\ OnTop("Infer", "deps") /\ Top.curMod # 0
    /\ IF Top.inner = {}
         THEN stack' = Replace([Top EXCEPT !.curMod = 0])
         ELSE \E f \in Top.inner :
                stack' = <<Frame("Infer", <<Top.curMod, f>>, "entry")>> \o
                         Replace([Top EXCEPT !.inner = Top.inner \ {f}])
    /\ UNCHANGED <<uses, drvPc, pendMods, pendParts, drvMod,
                   hasMainFunc, runtimeLoaded, resolved, inferred, modScope,
                   useScope, methodLists, typedGen, finalized, semChecked,
                   declsInserted, descended>>
    /\ UNCHANGED notDrv

\* args.go 455-462: the visitor walks the sub-module and generates constraints.
InferVisit ==
    /\ OnTop("Infer", "visit")
    /\ typedGen' = [typedGen EXCEPT ![Top.id] = @ + 1]
    /\ stack' = Replace([Top EXCEPT !.pc = "finalize"])
    /\ UNCHANGED <<uses, drvPc, pendMods, pendParts, drvMod,
                   hasMainFunc, runtimeLoaded, resolved, inferred, modScope,
                   useScope, methodLists, finalized, semChecked,
                   declsInserted, descended>>
    /\ UNCHANGED notDrv

\* args.go 464: Finalize solves and assigns the types; Infer returns.
InferFinalize ==
    /\ OnTop("Infer", "finalize")
    /\ finalized' = [finalized EXCEPT ![Top.id] = @ + 1]
    /\ stack' = Tail(stack)
    /\ UNCHANGED <<uses, drvPc, pendMods, pendParts, drvMod,
                   hasMainFunc, runtimeLoaded, resolved, inferred, modScope,
                   useScope, methodLists, typedGen, semChecked,
                   declsInserted, descended>>
    /\ UNCHANGED notDrv

Next ==
    \/ LoadRuntime
    \/ BuildResolveCall \/ BuildResolveRet \/ BuildResolveEnd
    \/ BuildInferModule \/ BuildInferCall \/ BuildInferModuleEnd
    \/ BuildInferEnd \/ BuildSemCheck \/ BuildDone
    \/ ResolveEntry \/ ResolveUsedSubmod \/ ResolveUse \/ ResolveUseModule
    \/ ResolveTopLevelDecls \/ ResolveDescent
    \/ InferEntry \/ InferUsedModule \/ InferUsedPart \/ InferVisit
    \/ InferFinalize

Spec == Init /\ [][Next]_vars

(***************************************************************************)
(* Properties of the driver, Resolve and Infer.                            *)
(***************************************************************************)
ModUses(m) == UNION {uses[<<m, f>>] : f \in PartsOf(m)}

RECURSIVE UsesClosure(_, _)
UsesClosure(S, n) ==
    IF n = 0 THEN S
    ELSE UsesClosure(S \cup UNION {ModUses(d) : d \in S}, n - 1)

\* The modules that m uses, transitively.
TransUses(m) == UsesClosure(ModUses(m), NMods)

\* The modules that sub-module s uses, transitively.
TransUsesOfSub(s) == UsesClosure(uses[s], NMods)

Active(fn, id, pcs) ==
    \E i \in 1..Len(stack) :
       stack[i].fn = fn /\ stack[i].id = id /\ stack[i].pc \in pcs

ResolveStarted(m) ==
    Active("Resolve", m, {"decls", "descent"}) \/ modScope[m] = "decls"

ResolveComplete(m) ==
    /\ methodLists[m] >= 1
    /\ ~Active("Resolve", m, {"uses", "used", "decls", "descent"})

InferStarted(s) ==
    Active("Infer", s, {"visit", "finalize"}) \/ typedGen[s] >= 1

InferComplete(s) ==
    /\ finalized[s] >= 1
    /\ ~Active("Infer", s, {"deps", "visit", "finalize"})

\* C5: Resolve(m) is at or past the insertion of m's top-level declarations
\* only when all three resolver phases have run to completion for every module
\* that m uses, transitively, whatever the order of the driver's calls.
C5_ResolveAfterDependencies ==
    \A m \in Mods :
       ResolveStarted(m) => \A d \in TransUses(m) : ResolveComplete(d)

\* Resolve was called on module 1 first, it uses module 2, module 3 is reached
\* through one of the two sub-modules of module 2 only, and module 1 is about
\* to insert its declarations.
C5_Witness ==
    /\ Active("Resolve", 1, {"decls"})
    /\ pendMods = Mods \ {1}
    /\ ModUses(1) = {2}
    /\ uses[<<2, "x">>] = {}
    /\ uses[<<2, "y">>] = {3}

\* C6: Infer(s) is at or past the generation of constraints for s only when
\* inference has finished for every sub-module of every module that s uses,
\* transitively, whatever the order of the driver's calls.
C6_InferAfterDependencies ==
    \A s \in Subs :
       InferStarted(s) =>
          \A d \in TransUsesOfSub(s) : \A f \in PartsOf(d) :
             InferComplete(<<d, f>>)

\* Infer was called on the sub-module of module 1 before any other, it uses
\* module 2 (two sub-modules) and through it module 3, and it is about to
\* generate its constraints.
C6_Witness ==
    /\ Active("Infer", <<1, "x">>, {"visit"})
    /\ drvMod = 1
    /\ pendMods = Mods \ {1}
    /\ uses[<<1, "x">>] = {2}
    /\ uses[<<2, "x">>] = {}
    /\ uses[<<2, "y">>] = {3}

\* C7: a call of Resolve on a module whose resolved flag is set, or of Infer on
\* a sub-module whose inferred flag is set, returns at once: the activation is
\* popped, no other activation is pushed, and no scope, method list, flag or
\* inference result changes.
C7_SecondCallIsNoOp ==
    [][((OnTop("Resolve", "entry") /\ resolved[Top.id]) \/
        (OnTop("Infer", "entry") /\ inferred[Top.id]))
       => /\ stack' = Tail(stack)
          /\ UNCHANGED <<resolved, inferred, modScope, useScope, methodLists,
                         typedGen, finalized, semChecked, hasMainFunc>>]_vars

\* The driver calls Infer on a sub-module that was inferred before, through
\* the recursion of an earlier call, in a module that was resolved the same way.
C7_Witness ==
    /\ OnTop("Infer", "entry")
    /\ inferred[Top.id]
    /\ finalized[Top.id] = 1
    /\ Len(stack) = 1
    /\ methodLists[Top.id[1]] = 1

\* The steps of one module, at the grain of its sub-modules.
UseScopesPopulated(m) ==
    /\ \A f \in PartsOf(m) : useScope[<<m, f>>] = uses[<<m, f>>]
    /\ ~Active("Resolve", m, {"uses", "used"})

DeclsStarted(m) == \E f \in PartsOf(m) : <<m, f>> \in declsInserted

DeclsComplete(m) ==
    /\ \A f \in PartsOf(m) : <<m, f>> \in declsInserted
    /\ ~Active("Resolve", m, {"decls"})

DescentStarted(m) == \E f \in PartsOf(m) : <<m, f>> \in descended

DescentFinished(m) ==
    /\ \A f \in PartsOf(m) : <<m, f>> \in descended
    /\ ResolveComplete(m)

InferenceEntered(m) ==
    \E f \in PartsOf(m) :
       inferred[<<m, f>>] \/ typedGen[<<m, f>>] >= 1 \/ finalized[<<m, f>>] >= 1

\* C20: in every module the steps happen in the order use-scope population,
\* insertion of the top-level declarations, descent, inference, lints: the use
\* scope of every sub-module is populated before a top-level declaration of
\* the module is inserted, the declarations of all sub-modules are inserted
\* before the descent visits a sub-module, no sub-module is inferred before
\* the descent of its module has finished, and the lints run on a module only
\* after inference has finished for all its sub-modules.
C20_StepsInOrder ==
    \A m \in Mods :
       /\ (DeclsStarted(m) => UseScopesPopulated(m))
       /\ (DescentStarted(m) => DeclsComplete(m))
       /\ (InferenceEntered(m) => DescentFinished(m))
       /\ (m \in semChecked =>
             \A f \in PartsOf(m) : InferComplete(<<m, f>>))

\* The lints have run on module 2 and on no other module; module 2 has two
\* sub-modules, one of them uses module 3, and each of its steps ran once on
\* each sub-module.
C20_Witness ==
    /\ semChecked = {2}
    /\ uses[<<2, "x">>] = {}
    /\ uses[<<2, "y">>] = {3}
    /\ useScope[<<2, "y">>] = {3}
    /\ \A f \in PartsOf(2) :
          /\ <<2, f>> \in declsInserted
          /\ <<2, f>> \in descended
          /\ typedGen[<<2, f>>] = 1
          /\ finalized[<<2, f>>] = 1
    /\ methodLists[2] = 1

(***************************************************************************)
(* PART 2.  The resolver on one name (resolve.go): a type name goes        *)
(* through getIdent, a variable access and the function expression of a    *)
(* call through tryGetIdent and the peel loop.  The k-th segment of the    *)
(* name as written is the number k; a name of n segments has the module    *)
(* names 1..n-1 and the name n.                                            *)
(***************************************************************************)
MaxSegs == 4

\* Call arguments are only counted (the cast check of resolve.go 607).
MaxArgs == 2

\* Resolver.module, and one other module.
CurModule == "A"

ModuleNamesOfIdents == {"A", "B"}

\* The function of a FunctionDecl and the function of a LambdaExpr inside it.
Functions == {"f", "lam"}

NilIdent ==
    [type |-> "nil", enum |-> FALSE, public |-> FALSE, module |-> "",
     function |-> "nil"]

UnknownIdent ==
    [type |-> "unknown", enum |-> FALSE, public |-> FALSE, module |-> "",
     function |-> "nil"]

\* Ident: Type, Public, Scope.Module, Scope.Function; enum tells whether a type
\* ident's actual type is an EnumType.  Scopes with a function hold variables
\* of the current module.
TopLevelIdents ==
    {[type |-> ty, enum |-> en, public |-> pu, module |-> mo, function |-> "nil"] :
       ty \in {"VARIABLE", "FUNCTION", "TYPE"}, en \in BOOLEAN,
       pu \in BOOLEAN, mo \in ModuleNamesOfIdents}

Idents ==
    {i \in TopLevelIdents : i.enum => i.type = "TYPE"} \cup
    {[type |-> "VARIABLE", enum |-> FALSE, public |-> FALSE,
      module |-> CurModule, function |-> fn] : fn \in Functions}

\* resolve.go 26-35.
Split(name) ==
    IF Len(name.ModuleNames) > 0
      THEN <<[ModuleNames |-> SubSeq(name.ModuleNames, 1,
                                     Len(name.ModuleNames) - 1),
              Name |-> name.ModuleNames[Len(name.ModuleNames)]],
             name.Name>>
      ELSE <<[ModuleNames |-> <<>>, Name |-> 0], 0>>

NameOfLen(n) == [ModuleNames |-> [i \in 1..(n - 1) |-> i], Name |-> n]

\* resolve.go 193-196: curScope.GetIdent, then UseScope.GetIdent; the answer
\* for a name is an input, the same at every lookup of that name.
GetIdent(name, ident) ==
    LET k == Len(name.ModuleNames) + 1
    IN  IF nmEnv[k] # UnknownIdent
          THEN ident = nmEnv[k] /\ UNCHANGED nmEnv
          ELSE nmEnv' = [nmEnv EXCEPT ![k] = ident]

\* resolve.go 198-210 and 223-235: the complaints about an ident.
Complaints(ident) ==
    IF ident = NilIdent THEN {"Cannot resolve"}
    ELSE (IF ~ident.public /\ ident.module # CurModule
            THEN {"Cannot access private identifier"} ELSE {}) \cup
         (IF ident.function # "nil" /\ nmCurFn # ident.function
            THEN {"Cannot access local identifier from lambda"} ELSE {})

\* resolve.go 190-213: the complaints are logged, the ident is returned.
TryGetIdent(name, ident) ==
    /\ GetIdent(name, ident)
    /\ nmLog' = nmLog \cup Complaints(ident)

NmInit ==
    /\ nmPc = "start"
    /\ nmKind \in {"UnresolvedType", "VariableAccessExpr", "CallExpr"}
    /\ nmVisit = nmKind
    /\ nmLen \in 1..MaxSegs
    /\ nmName = NameOfLen(nmLen)
    /\ nmEnv = [k \in 1..MaxSegs |-> UnknownIdent]
    /\ nmCurFn \in {"nil"} \cup Functions
    /\ nmIdent = NilIdent
    /\ nmWrap = <<>>
    /\ nmFnWrap = <<>>
    /\ nmPeels = 0
    /\ nmNode = nmKind
    /\ nmBound = NilIdent
    /\ nmLog = {}
    /\ nmArguments \in IF nmKind = "CallExpr"
                         THEN {[i \in 1..n |-> i] : n \in 0..MaxArgs}
                         ELSE {<<>>}
    /\ nmEnum = <<>>

NmSpecInit == NmInit /\ DrvIdle /\ VsIdle /\ MgIdle /\ InfIdle /\ ExIdle /\ RcIdle /\ MtIdle /\ DcIdle /\ MnIdle /\ PsIdle /\ ItIdle /\ SlIdle /\ IdIdle /\ LkIdle /\ ClIdle /\ LxIdle

IdentOrNil == Idents \cup {NilIdent}

\* resolve.go 831-841 with getIdent, 215-238: a type name; every complaint
\* exits the compiler (Resolver.err).
NmResolveType ==
    /\ nmPc = "start" /\ nmVisit = "UnresolvedType"
    /\ \E ident \in IdentOrNil :
         /\ GetIdent(nmName, ident)
         /\ nmIdent' = ident
         /\ IF Complaints(ident) # {} \/ ident.type # "TYPE"
              THEN nmPc' = "fatal" /\ UNCHANGED <<nmBound, nmNode>>
              ELSE nmPc' = "done" /\ nmBound' = ident /\ nmNode' = "Type"
    /\ UNCHANGED <<nmKind, nmVisit, nmLen, nmName, nmCurFn, nmWrap, nmFnWrap,
                   nmPeels, nmLog, nmArguments, nmEnum>>
    /\ UNCHANGED notNm

\* An enum literal that drops the arguments of the call.
EnumLiteralNoPayload(member, hasTuple, members) ==
    [Member |-> member, hasTuple |-> FALSE, Members |-> <<>>]

\* resolve.go 364-375 and 555-565: &EnumLiteral{Member}; hasTuple tells
\* whether TupleLiteral is set (for a call), members are its Members.
EnumLiteral(member, hasTuple, members) ==
    [Member |-> member, hasTuple |-> hasTuple,
     Members |-> IF hasTuple THEN members ELSE <<>>]

\* resolve.go 354-380 and 537-570: a qualified name whose qualifiers name an
\* enum type is an enum literal (hasMember: the answer of GetMember); the enum
\* type is then resolved as a type name, through getIdent.
NmEnumCheck ==
    /\ nmPc = "start" /\ nmVisit \in {"VariableAccessExpr", "CallExpr"}
    /\ IF Len(nmName.ModuleNames) = 0
         THEN /\ nmPc' = "try"
              /\ UNCHANGED <<nmEnv, nmLog, nmNode, nmBound, nmEnum>>
         ELSE \E ident \in IdentOrNil, hasMember \in BOOLEAN :
                /\ TryGetIdent(Split(nmName)[1], ident)
                /\ IF ident.type = "TYPE" /\ ident.enum
                     THEN IF hasMember /\ Complaints(ident) = {}
                            THEN /\ nmPc' = "done"
                                 /\ nmNode' = "EnumLiteral"
                                 /\ nmBound' = ident
                                 /\ nmEnum' = EnumLiteral(Split(nmName)[2],
                                                          nmVisit = "CallExpr",
                                                          nmArguments)
                            ELSE /\ nmPc' = "fatal"
                                 /\ UNCHANGED <<nmNode, nmBound, nmEnum>>
                     ELSE /\ nmPc' = "try"
                          /\ hasMember
                          /\ UNCHANGED <<nmNode, nmBound, nmEnum>>
    /\ UNCHANGED <<nmKind, nmVisit, nmLen, nmName, nmCurFn, nmIdent, nmWrap,
                   nmFnWrap, nmPeels, nmArguments>>
    /\ UNCHANGED notNm

\* resolve.go 385-386 and 572-573: the name is tried as written.
NmTryName ==
    /\ nmPc = "try"
    /\ \E ident \in IdentOrNil :
         /\ TryGetIdent(nmName, ident)
         /\ nmIdent' = ident
    /\ nmWrap' = <<>>
    /\ nmPc' = "loop"
    /\ UNCHANGED <<nmKind, nmVisit, nmLen, nmName, nmCurFn, nmFnWrap, nmPeels,
                   nmNode, nmBound, nmArguments, nmEnum>>
    /\ UNCHANGED notNm

\* resolve.go 403-407 and 587-591: the first wrapper becomes wrap, every later
\* one is stored in wrap.Struct, the field of the first wrapper.
WrapNext(wrap, memberName) ==
    IF wrap = <<>> THEN <<memberName>> ELSE <<wrap[1], memberName>>

\* resolve.go 388-409 and 574-594: one iteration of the peel loop.
NmPeel ==
    /\ nmPc = "loop"
    /\ nmIdent = NilIdent /\ Len(nmName.ModuleNames) > 0
    /\ LET parentName == Split(nmName)[1]
           memberName == Split(nmName)[2]
       IN  /\ nmName' = parentName
           /\ \E ident \in IdentOrNil :
                /\ TryGetIdent(parentName, ident)
                /\ nmIdent' = ident
           /\ nmWrap' = WrapNext(nmWrap, memberName)
    /\ nmPeels' = nmPeels + 1
    /\ UNCHANGED <<nmPc, nmKind, nmVisit, nmLen, nmCurFn, nmFnWrap, nmNode,
                   nmBound, nmArguments, nmEnum>>
    /\ UNCHANGED notNm

\* resolve.go 410-438: the wrapper replaces the node, then the ident decides: a
\* function replaces the node by a FunctionAccessExpr, a variable is bound.
NmBindVariable ==
    /\ nmPc = "loop" /\ nmVisit = "VariableAccessExpr"
    /\ ~(nmIdent = NilIdent /\ Len(nmName.ModuleNames) > 0)
    /\ LET here == nmKind = "VariableAccessExpr"
           wrapped == IF nmWrap # <<>> THEN "StructAccessExpr" ELSE nmNode
       IN  CASE nmIdent = NilIdent ->
                  /\ nmPc' = "fatal"
                  /\ nmNode' = IF here THEN wrapped ELSE nmNode
                  /\ UNCHANGED nmBound
             [] nmIdent.type = "FUNCTION" ->
                  /\ nmPc' = "done"
                  /\ nmNode' = IF here THEN "FunctionAccessExpr" ELSE nmNode
                  /\ nmBound' = nmIdent
             [] nmIdent.type = "VARIABLE" ->
                  /\ nmPc' = "done"
                  /\ nmNode' = IF here THEN wrapped ELSE nmNode
                  /\ nmBound' = nmIdent
             [] OTHER ->
                  /\ nmPc' = "fatal"
                  /\ nmNode' = IF here THEN wrapped ELSE nmNode
                  /\ UNCHANGED nmBound
    /\ UNCHANGED <<nmKind, nmVisit, nmLen, nmName, nmEnv, nmCurFn, nmIdent,
                   nmWrap, nmFnWrap, nmPeels, nmLog, nmArguments, nmEnum>>
    /\ UNCHANGED notNm

\* resolve.go 595-616 with exprToType, 642-676: the wrapper becomes the call's
\* function expression; an unwrapped name goes through getIdent, and a type
\* makes the call a cast of exactly one argument.  The visitor then descends
\* to the function expression (part_000 176, 237).
NmCallFunction ==
    /\ nmPc = "loop" /\ nmVisit = "CallExpr"
    /\ ~(nmIdent = NilIdent /\ Len(nmName.ModuleNames) > 0)
    /\ nmFnWrap' = nmWrap
    /\ IF nmWrap = <<>>
         THEN \E ident \in IdentOrNil, nargs \in {Len(nmArguments)} :
                /\ GetIdent(nmName, ident)
                /\ CASE Complaints(ident) # {} ->
                          /\ nmPc' = "fatal"
                          /\ UNCHANGED <<nmVisit, nmNode, nmBound>>
                     [] Complaints(ident) = {} /\ ident.type = "TYPE" ->
                          /\ nmPc' = IF nargs = 1 THEN "done" ELSE "fatal"
                          /\ nmNode' = IF nargs = 1 THEN "CastExpr" ELSE nmNode
                          /\ nmBound' = IF nargs = 1 THEN ident ELSE nmBound
                          /\ UNCHANGED nmVisit
                     [] OTHER ->
                          /\ nmPc' = "start"
                          /\ nmVisit' = "VariableAccessExpr"
                          /\ UNCHANGED <<nmNode, nmBound>>
         ELSE /\ nmPc' = "start"
              /\ nmVisit' = "VariableAccessExpr"
              /\ UNCHANGED <<nmEnv, nmNode, nmBound>>
    /\ UNCHANGED <<nmKind, nmLen, nmName, nmCurFn, nmIdent, nmWrap, nmPeels,
                   nmLog, nmArguments, nmEnum>>
    /\ UNCHANGED notNm

NmNext ==
    \/ NmResolveType \/ NmEnumCheck \/ NmTryName \/ NmPeel
    \/ NmBindVariable \/ NmCallFunction

SpecName == NmSpecInit /\ [][NmNext]_vars

(***************************************************************************)
(* Properties of the resolver on one name.                                 *)
(***************************************************************************)
PrivateForeign(ident) ==
    ident # NilIdent /\ ~ident.public /\ ident.module # CurModule

\* The wrappers the node (or the call's function expression) is left with.
Wrappers == IF nmKind = "CallExpr" THEN nmFnWrap ELSE nmWrap

\* C2: a lookup issued while resolving module A that lands on a declaration
\* that is not public in another module is fatal in every position: no
\* qualified name is ever bound to such a declaration.
C2_PrivateLookupRejected ==
    (nmPc = "done" /\ Len(nmName.ModuleNames) > 0) => ~PrivateForeign(nmBound)

\* C3: a name in a lambda body that lands on a variable of the enclosing
\* function is fatal: no name in the lambda is ever bound to such a variable.
C3_NoCaptureInLambda ==
    (nmPc = "done" /\ nmCurFn = "lam") =>
       ~(nmBound.type = "VARIABLE" /\ nmBound.function = "f")

\* C4: a dotted name that first resolves, to a variable, after k segments were
\* peeled is left as k nested StructAccessExpr whose members are, from the
\* outermost, the last k segments of the name in reverse order; both for a
\* variable access and for the function expression of a call.
C4_PeelKeepsEverySegment ==
    (nmPc = "done" /\ nmPeels >= 1 /\ nmBound.type = "VARIABLE") =>
       /\ nmKind = "VariableAccessExpr" => nmNode = "StructAccessExpr"
       /\ Wrappers = [i \in 1..nmPeels |-> nmLen - i + 1]

\* The call is written E.Tag(x) with E, named by all segments but the
\* last, an enum type.
EnumCall ==
    /\ nmKind = "CallExpr" /\ nmLen >= 2
    /\ nmEnv[nmLen - 1].type = "TYPE" /\ nmEnv[nmLen - 1].enum

\* C15: a call E.Tag(x) on an enum type E ends as an EnumLiteral with
\* member Tag and the call's arguments as its tuple, or resolution is
\* fatal; it is never a cast, never wrapped in struct accesses and never
\* handed on as a call.
C15_EnumCallIsLiteral ==
    EnumCall =>
        /\ nmPc \in {"done", "fatal"}
        /\ nmFnWrap = <<>> /\ nmWrap = <<>>
        /\ nmNode # "CastExpr"
        /\ nmPc = "done" =>
              /\ nmNode = "EnumLiteral"
              /\ nmEnum = [Member |-> nmLen, hasTuple |-> TRUE,
                           Members |-> nmArguments]

\* An enum reached through a module qualifier, called with two arguments,
\* has become an enum literal.
C15_Witness ==
    /\ EnumCall /\ nmLen = 3 /\ Len(nmArguments) = 2
    /\ nmPc = "done" /\ nmNode = "EnumLiteral"

(***************************************************************************)
(* PART 3.  The resolver's descent over one sub-module (part_000 and       *)
(* resolve.go 240-272, 290-344, 701-847).  The tree is an input, disclosed *)
(* node by node as the visitor reaches it; what the visitor has left to do *)
(* is a list of items: a node to visit, a call of EnterScope or ExitScope, *)
(* a call of PostVisit.                                                    *)
(***************************************************************************)
MaxDepth == 3

MaxKids == 2

Item(op, arg) == [op |-> op, arg |-> arg]

Items(n, op, arg) == [i \in 1..n |-> Item(op, arg)]

\* Children exist above the deepest level only.
NKids(lvl) == IF lvl < MaxDepth THEN 0..MaxKids ELSE {0}

NodeKinds == {"FunctionDecl", "LambdaExpr", "Block", "TypeDecl",
              "VariableDecl", "Other"}

\* Function bodies are blocks, parameters are variable declarations
\* (part_000 268-276).
KindsFor(op) ==
    CASE op = "node" -> NodeKinds
      [] op = "block" -> {"Block"}
      [] op = "vardecl" -> {"VariableDecl"}

PrimitiveType == [kind |-> "Primitive", members |-> <<>>]

CompositeKinds == {"Struct", "Enum", "Interface", "Function"}

\* A struct, enum, interface or function type has no member or one member type.
TypesOver(memberTypes) ==
    {PrimitiveType} \cup
    {[kind |-> k, members |-> ms] :
       k \in CompositeKinds, ms \in {<<>>} \cup {<<ty>> : ty \in memberTypes}}

\* The types of one level, and of two.
MemberTypes == TypesOver({})

AllTypes == TypesOver(MemberTypes)

\* The type ResolveNode resolves for a node: the FunctionType of a function,
\* the type of a TypeDecl or VariableDecl (a VariableDecl may have none);
\* no type otherwise (resolve.go 291-335).
TypeItems(kind, flag) ==
    CASE kind \in {"FunctionDecl", "LambdaExpr"} -> <<Item("fntype", 0)>>
      [] kind = "TypeDecl" -> <<Item("type", 0)>>
      [] kind = "VariableDecl" /\ flag -> <<Item("type", 0)>>
      [] OTHER -> <<>>

FunctionTypes == {ty \in AllTypes : ty.kind = "Function"}

TypesFor(op) == IF op = "fntype" THEN FunctionTypes ELSE AllTypes

RECURSIVE HasStruct(_)
HasStruct(ty) ==
    ty.kind = "Struct" \/ \E i \in 1..Len(ty.members) : HasStruct(ty.members[i])

\* resolve.go 54-59.
currentFunction == IF vsFuncs = <<>> THEN 0 ELSE vsFuncs[Len(vsFuncs)]

\* resolve.go 263-265 on the state <<pc, curScope>>.
EnterScopeOf(st, fn) ==
    IF st[1] = "panic" THEN st ELSE <<st[1], Append(st[2], fn)>>

\* resolve.go 267-272: the module scope has no outer scope.
ExitScopeOf(st) ==
    IF st[1] = "panic" THEN st
    ELSE IF st[2] = <<>> THEN <<"panic", st[2]>>
    ELSE <<st[1], SubSeq(st[2], 1, Len(st[2]) - 1)>>

\* resolve.go 701-847: a struct enters two scopes around its members, an enum
\* and an interface one, a function type none.
RECURSIVE ResolveType(_, _, _)
ResolveType(ty, st, fn) ==
    LET inner(s) == IF ty.members = <<>> THEN s
                    ELSE ResolveType(ty.members[1], s, fn)
    IN CASE ty.kind = "Struct" ->
              ExitScopeOf(ExitScopeOf(
                 inner(EnterScopeOf(EnterScopeOf(st, fn), fn))))
         [] ty.kind \in {"Enum", "Interface"} ->
              ExitScopeOf(inner(EnterScopeOf(st, fn)))
         [] OTHER -> inner(st)

VsInit ==
    /\ vsPc = "start"
    /\ vsTodo = <<>>
    /\ vsScope = <<>>
    /\ vsFuncs = <<>>
    /\ vsSeen = {}

VsSpecInit == VsInit /\ DrvIdle /\ NmIdle /\ MgIdle /\ InfIdle /\ ExIdle /\ RcIdle /\ MtIdle /\ DcIdle /\ MnIdle /\ PsIdle /\ ItIdle /\ SlIdle /\ IdIdle /\ LkIdle /\ ClIdle /\ LxIdle

VsHead(op) == vsPc = "run" /\ vsTodo # <<>> /\ Head(vsTodo).op = op

\* part_000 23-27: EnterScope, the top-level nodes, ExitScope.
VisitSubmodule ==
    /\ vsPc = "start"
    /\ vsPc' = "run"
    /\ vsScope' = Append(vsScope, currentFunction)
    /\ \E n \in 1..MaxKids :
         vsTodo' = Items(n, "node", 1) \o <<Item("exit", 0)>>
    /\ UNCHANGED <<vsFuncs, vsSeen>>
    /\ UNCHANGED notVs

\* part_000 264-279 behind a FunctionDecl or LambdaExpr at level lvl:
\* EnterScope, the parameters, the body if there is one, ExitScope.
VisitFunction(lvl, nparams, hasBody) ==
    <<Item("enter", 0)>> \o Items(nparams, "vardecl", lvl + 1) \o
    (IF hasBody THEN <<Item("block", lvl + 1)>> ELSE <<>>) \o
    <<Item("exit", 0)>>

\* part_000 110-262 and 53-64: the children of a node, then PostVisit where it
\* does something (resolve.go 245-261).  flag: the function has a body, the
\* block is non-scoping.
VisitChildren(kind, lvl, n, flag) ==
    CASE kind \in {"FunctionDecl", "LambdaExpr"} ->
           VisitFunction(lvl, n, flag) \o <<Item("post", kind)>>
      [] kind = "Block" ->
           (IF flag THEN <<>> ELSE <<Item("enter", 0)>>) \o
           Items(n, "node", lvl + 1) \o
           (IF flag THEN <<>> ELSE <<Item("exit", 0)>>)
      [] OTHER -> Items(n, "node", lvl + 1)

\* The shapes the witness of the descent looks for.
Shape(kind, flag) ==
    CASE kind = "FunctionDecl" -> {IF flag THEN "Body" ELSE "NoBody"}
      [] kind = "LambdaExpr" -> {kind}
      [] kind = "Block" /\ flag -> {"NonScoping"}
      [] OTHER -> {}

\* part_000 53-64 with resolve.go 240-243 and 290-344: Visit on the next node:
\* ResolveNode (a FunctionDecl enters a scope, a function is pushed, the
\* node's type is resolved next), then the children and PostVisit.
VsVisit ==
    /\ vsPc = "run" /\ vsTodo # <<>>
    /\ Head(vsTodo).op \in {"node", "block", "vardecl"}
    /\ LET lvl == Head(vsTodo).arg
       IN \E kind \in KindsFor(Head(vsTodo).op), n \in NKids(lvl),
             flag \in BOOLEAN :
           /\ kind = "FunctionDecl" => (flag => lvl < MaxDepth)
           /\ kind = "LambdaExpr" => (flag <=> lvl < MaxDepth)
           /\ kind = "TypeDecl" => (n = 0 /\ flag)
           /\ kind = "VariableDecl" => n <= 1
           /\ kind = "Other" => flag
           /\ vsScope' = IF kind = "FunctionDecl"
                           THEN Append(vsScope, currentFunction) ELSE vsScope
           /\ vsFuncs' = IF kind \in {"FunctionDecl", "LambdaExpr"}
                           THEN Append(vsFuncs, Len(vsFuncs) + 1) ELSE vsFuncs
           /\ vsTodo' = TypeItems(kind, flag) \o
                        VisitChildren(kind, lvl, n, flag) \o Tail(vsTodo)
           /\ vsSeen' = vsSeen \cup Shape(kind, flag)
    /\ UNCHANGED vsPc
    /\ UNCHANGED notVs

\* resolve.go 701-847, called by ResolveNode on the type of the node.
VsResolveType ==
    /\ vsPc = "run" /\ vsTodo # <<>>
    /\ Head(vsTodo).op \in {"type", "fntype"}
    /\ \E ty \in TypesFor(Head(vsTodo).op) :
         LET st == ResolveType(ty, <<vsPc, vsScope>>, currentFunction)
         IN /\ vsPc' = st[1]
            /\ vsScope' = st[2]
            /\ vsSeen' = vsSeen \cup
                            (IF HasStruct(ty) THEN {"Struct"} ELSE {})
    /\ vsTodo' = Tail(vsTodo)
    /\ UNCHANGED vsFuncs
    /\ UNCHANGED notVs

\* resolve.go 263-265, called by the visitor (part_000 102-104).
EnterScope ==
    /\ VsHead("enter")
    /\ vsScope' = EnterScopeOf(<<vsPc, vsScope>>, currentFunction)[2]
    /\ vsTodo' = Tail(vsTodo)
    /\ UNCHANGED <<vsPc, vsFuncs, vsSeen>>
    /\ UNCHANGED notVs

\* resolve.go 267-272, called by the visitor (part_000 106-108).
ExitScope ==
    /\ VsHead("exit")
    /\ vsPc' = ExitScopeOf(<<vsPc, vsScope>>)[1]
    /\ vsScope' = ExitScopeOf(<<vsPc, vsScope>>)[2]
    /\ vsTodo' = Tail(vsTodo)
    /\ UNCHANGED <<vsFuncs, vsSeen>>
    /\ UNCHANGED notVs

\* PostVisitScope that leaves the scope of a FunctionDecl open.
PostVisitNoExit(kind, st) == st

\* resolve.go 245-261: the scope a FunctionDecl entered in ResolveNode is left
\* (the method is attached to its receiver type before); a lambda entered none.
PostVisitScope(kind, st) ==
    IF kind = "FunctionDecl" THEN ExitScopeOf(st) ELSE st

\* resolve.go 245-261: and the function is popped.
PostVisit ==
    /\ VsHead("post")
    /\ vsPc' = PostVisitScope(Head(vsTodo).arg, <<vsPc, vsScope>>)[1]
    /\ vsScope' = PostVisitScope(Head(vsTodo).arg, <<vsPc, vsScope>>)[2]
    /\ vsFuncs' = SubSeq(vsFuncs, 1, Len(vsFuncs) - 1)
    /\ vsTodo' = Tail(vsTodo)
    /\ UNCHANGED vsSeen
    /\ UNCHANGED notVs

\* part_000 27: VisitSubmodule returns.
VsReturn ==
    /\ vsPc = "run" /\ vsTodo = <<>>
    /\ vsPc' = "returned"
    /\ UNCHANGED <<vsTodo, vsScope, vsFuncs, vsSeen>>
    /\ UNCHANGED notVs

VsNext ==
    \/ VisitSubmodule \/ VsVisit \/ VsResolveType \/ EnterScope
    \/ ExitScope \/ PostVisit \/ VsReturn

SpecVisit == VsSpecInit /\ [][VsNext]_vars

\* C8: the resolver's scopes are paired: ExitScope is never called on the
\* module scope, and when VisitSubmodule has returned the current scope is the
\* module scope again and the stack of functions is empty.
C8_ScopesPaired ==
    /\ vsPc # "panic"
    /\ vsPc = "returned" => (vsScope = <<>> /\ vsFuncs = <<>>)

\* VisitSubmodule has returned from a tree with a function with a body and one
\* without, a lambda, a non-scoping block and a struct type.
C8_Witness ==
    /\ vsPc = "returned"
    /\ vsSeen = {"Body", "NoBody", "LambdaExpr", "NonScoping", "Struct"}

(***************************************************************************)
(* PART 4.  The mangler (mangle.go) on two resolved symbols: functions     *)
(* and variables of a few modules, with parameter, return and receiver     *)
(* types that are primitive, named or pointers.                            *)
(***************************************************************************)
MaxParams == 1

NoType == [kind |-> "nil", name |-> "", mutable |-> FALSE]

IntType == [kind |-> "Primitive", name |-> "int", mutable |-> FALSE]

NamedT == [kind |-> "Named", name |-> "T", mutable |-> FALSE]

\* PointerType: Addressee (a primitive or named type here) and IsMutable.
PointerTo(ty, isMutable) ==
    [kind |-> "Pointer", name |-> ty.name, mutable |-> isMutable]

Addressee(ty) ==
    [kind |-> IF ty.name = "int" THEN "Primitive" ELSE "Named",
     name |-> ty.name, mutable |-> FALSE]

MgTypes == {IntType, NamedT, PointerTo(IntType, TRUE), PointerTo(IntType, FALSE)}

\* Module.Name.Parts.
ModulePaths == {<<"a">>, <<"b">>, <<"a", "b">>}

SymbolNames == {"x", "main"}

RECURSIVE SeqsUpTo(_, _)
SeqsUpTo(S, n) ==
    IF n = 0 THEN {<<>>}
    ELSE SeqsUpTo(S, n - 1) \cup
         {Append(s, x) : s \in SeqsUpTo(S, n - 1), x \in S}

\* Function: ParentModule, Name, Type.Receiver, StaticReceiverType, the types
\* of Parameters, Type.Return.
FunctionSymbols ==
    {[sym |-> "Function", module |-> mo, name |-> na, receiver |-> re,
      static |-> st, params |-> ps, return |-> IntType] :
       mo \in ModulePaths, na \in SymbolNames,
       re \in {NoType, NamedT}, st \in {NoType, NamedT},
       ps \in SeqsUpTo(MgTypes \ {NamedT}, MaxParams)}

\* Variable: the module it is declared in, Name, Type.
VariableSymbols ==
    {[sym |-> "Variable", module |-> mo, name |-> na, receiver |-> NoType,
      static |-> NoType, params |-> <<>>, return |-> IntType] :
       mo \in ModulePaths, na \in SymbolNames}

\* A function has a receiver or a static receiver type, not both.
Symbols ==
    {f \in FunctionSymbols : f.receiver = NoType \/ f.static = NoType} \cup
    VariableSymbols

\* mangle.go 26-119 for pointer, primitive and named types without generic
\* arguments: "_", a "p" per pointer level, then the name with its length.
RECURSIVE TypeReferenceMangledName(_)
TypeReferenceMangledName(typ) ==
    LET RECURSIVE Base(_)
        Base(ty) ==
          IF ty.kind = "Pointer" THEN "p" \o Base(Addressee(ty))
          ELSE ToString(Len(ty.name)) \o ty.name
    IN "_" \o Base(typ)

\* mangle.go 17-23.
RECURSIVE TypeReferencesMangledName(_)
TypeReferencesMangledName(typs) ==
    IF typs = <<>> THEN ""
    ELSE TypeReferenceMangledName(Head(typs)) \o
         TypeReferencesMangledName(Tail(typs))

\* mangle.go 121-135.
RECURSIVE ModuleMangledName(_)
ModuleMangledName(parts) ==
    IF parts = <<>> THEN ""
    ELSE "_M" \o ToString(Len(Head(parts))) \o Head(parts) \o
         ModuleMangledName(Tail(parts))

\* mangle.go 137-170.
FunctionMangledName(v) ==
    IF v.name = "main" THEN "main"
    ELSE LET prefix == IF v.receiver # NoType THEN "m"
                       ELSE IF v.static # NoType THEN "s" ELSE ""
             result == "_" \o prefix \o "F" \o ToString(Len(v.name)) \o
                       v.name \o TypeReferencesMangledName(v.params) \o
                       TypeReferenceMangledName(v.return)
             withReceiver ==
               IF v.receiver # NoType
                 THEN TypeReferenceMangledName(v.receiver) \o result
               ELSE IF v.static # NoType
                 THEN TypeReferenceMangledName(v.static) \o result
               ELSE result
         IN ModuleMangledName(v.module) \o withReceiver

\* mangle.go 172-180.
VariableMangledName(v) == "_V" \o ToString(Len(v.name)) \o v.name

MgInit ==
    /\ mgSyms \in Symbols \X Symbols
    /\ mgNames = <<"", "">>

MgSpecInit == MgInit /\ DrvIdle /\ NmIdle /\ VsIdle /\ InfIdle /\ ExIdle /\ RcIdle /\ MtIdle /\ DcIdle /\ MnIdle /\ PsIdle /\ ItIdle /\ SlIdle /\ IdIdle /\ LkIdle /\ ClIdle /\ LxIdle

MangleFunction(i) ==
    /\ mgNames[i] = "" /\ mgSyms[i].sym = "Function"
    /\ mgNames' = [mgNames EXCEPT ![i] = FunctionMangledName(mgSyms[i])]
    /\ UNCHANGED mgSyms
    /\ UNCHANGED notMg

MangleVariable(i) ==
    /\ mgNames[i] = "" /\ mgSyms[i].sym = "Variable"
    /\ mgNames' = [mgNames EXCEPT ![i] = VariableMangledName(mgSyms[i])]
    /\ UNCHANGED mgSyms
    /\ UNCHANGED notMg

MgNext == \E i \in 1..2 : MangleFunction(i) \/ MangleVariable(i)

SpecMangle == MgSpecInit /\ [][MgNext]_vars

FreeMain(v) ==
    v.sym = "Function" /\ v.name = "main" /\ v.receiver = NoType /\
    v.static = NoType

\* What tells two declarations of a program apart: the kind of symbol, the
\* module path, the receiver or static receiver type and the name.
Declared(v) == <<v.sym, v.module, v.receiver, v.static, v.name>>

\* C9: mangling is injective on resolved symbols: two symbols that differ in
\* module path, receiver or static receiver type, or name have different
\* mangled names, unless both are free functions named main.
C9_MangleInjective ==
    (/\ mgNames # <<>> /\ mgNames[1] # "" /\ mgNames[2] # ""
     /\ Declared(mgSyms[1]) # Declared(mgSyms[2])
     /\ ~(FreeMain(mgSyms[1]) /\ FreeMain(mgSyms[2])))
       => mgNames[1] # mgNames[2]
(***************************************************************************)
(* PART 5.  The type inferrer (args.go) on one sub-module that declares    *)
(* one function f and a short list of statements: variable declarations,  *)
(* destructuring declarations and call statements over bool and numeric    *)
(* literals, variable accesses and calls.  The statements are revealed     *)
(* one at a time as the visitor reaches them.                             *)
(***************************************************************************)
MaxStmts == 2
MaxCallArgs == 2
MaxFnParams == 1

\* Type references.  A nil *TypeReference is NilType.
NilType == [k |-> "nil"]

PrimitiveOf(name) == [k |-> "prim", n |-> name]

PRIMITIVE_bool == PrimitiveOf("bool")

PRIMITIVE_int == PrimitiveOf("int")

PRIMITIVE_f64 == PrimitiveOf("f64")

TypeVariable(id) == [k |-> "var", id |-> id]

tupleOf(members) == [k |-> "tuple", m |-> members]

FunctionType(parameters, return, isVariadic) ==
    [k |-> "fn", p |-> parameters, r |-> return, variadic |-> isVariadic]

\* A FunctionType with a Receiver; the function types above have none (nil).
MethodType(receiver, parameters, return, isVariadic) ==
    [k |-> "fn", p |-> parameters, r |-> return, variadic |-> isVariadic,
     Receiver |-> receiver]

HasReceiver(typ) == "Receiver" \in DOMAIN typ

\* A Side is written as the type it stands for: an IdentSide is the type
\* variable of its id (SideFromType), every other type is a TypeSide.
IdentSide(side) == side.k = "var"

Constraint(left, right) == [Left |-> left, Right |-> right]

ConstraintFromTypes(a, b) == Constraint(a, b)

\* PointerType and ReferenceType: the addressee and the mutability flag.
PointerType(addressee, isMutable) ==
    [k |-> "ptr", a |-> addressee, IsMutable |-> isMutable]

ReferenceType(referrer, isMutable) ==
    [k |-> "ref", a |-> referrer, IsMutable |-> isMutable]

\* The addressee of a pointer, the referrer of a reference, nil otherwise.
getAdressee(typ) == IF typ.k \in {"ptr", "ref"} THEN typ.a ELSE [k |-> "nil"]

RECURSIVE SubsType(_, _, _)
SubsType(typ, id, what) ==
    CASE typ.k = "var" -> IF typ.id = id THEN what ELSE typ
      [] typ.k \in {"ptr", "ref"} ->
            [typ EXCEPT !.a = SubsType(typ.a, id, what)]
      [] typ.k = "fn" ->
            FunctionType([i \in 1..Len(typ.p) |-> SubsType(typ.p[i], id, what)],
                         SubsType(typ.r, id, what), typ.variadic)
      [] typ.k = "tuple" ->
            tupleOf([i \in 1..Len(typ.m) |-> SubsType(typ.m[i], id, what)])
      [] OTHER -> typ

SideSubs(side, id, what) ==
    IF IdentSide(side)
    THEN IF side.id = id THEN what ELSE side
    ELSE SubsType(side, id, what)

ConstraintSubs(c, id, side) ==
    Constraint(SideSubs(c.Left, id, side), SideSubs(c.Right, id, side))

subsAll(list, id, what) ==
    [i \in 1..Len(list) |-> ConstraintSubs(list[i], id, what)]

ActualTypesEqual(x, y) == x = y

Min(a, b) == IF a < b THEN a ELSE b

\* One step of the unification; the result is <<stack, substitutions>>.
SolveStep(stackIn, subsIn, addSubs, element) ==
    LET x == element.Left
        y == element.Right
    IN  IF IdentSide(x) /\ IdentSide(y) /\ x.id = y.id
        THEN <<stackIn, subsIn>>
        ELSE IF IdentSide(x)
        THEN <<subsAll(stackIn, x.id, y),
               IF addSubs
               THEN Append(subsAll(subsIn, x.id, y), Constraint(x, y))
               ELSE subsAll(subsIn, x.id, y)>>
        ELSE IF IdentSide(y)
        THEN <<subsAll(stackIn, y.id, x),
               IF addSubs
               THEN Append(subsAll(subsIn, y.id, x), Constraint(y, x))
               ELSE subsAll(subsIn, y.id, x)>>
        ELSE IF ActualTypesEqual(x, y)
        THEN <<stackIn, subsIn>>
        ELSE IF getAdressee(x).k # "nil" /\ getAdressee(y).k # "nil"
        THEN <<Append(stackIn,
                      ConstraintFromTypes(getAdressee(x), getAdressee(y))),
               subsIn>>
        ELSE IF x.k = "fn" /\ y.k = "fn"
        THEN LET ln == Min(Len(x.p), Len(y.p))
             IN  <<stackIn \o [i \in 1..ln |-> ConstraintFromTypes(x.p[i], y.p[i])]
                         \o (IF HasReceiver(x) /\ HasReceiver(y)
                             THEN <<ConstraintFromTypes(x.Receiver, y.Receiver)>>
                             ELSE <<>>)
                         \o <<ConstraintFromTypes(x.r, y.r)>>,
                   subsIn>>
        ELSE IF x.k = "tuple" /\ y.k = "tuple" /\ Len(x.m) = Len(y.m)
        THEN <<stackIn \o [i \in 1..Len(x.m) |-> ConstraintFromTypes(x.m[i], y.m[i])],
               subsIn>>
        ELSE <<stackIn, subsIn>>

RECURSIVE SolveSimple(_, _, _)
SolveSimple(simple, stackIn, subsIn) ==
    IF simple = <<>>
    THEN <<stackIn, subsIn>>
    ELSE LET r == SolveStep(stackIn, subsIn, FALSE, Head(simple))
         IN  SolveSimple(Tail(simple), r[1], r[2])

RECURSIVE SolveStack(_, _)
SolveStack(stackIn, subsIn) ==
    IF stackIn = <<>>
    THEN subsIn
    ELSE LET r == SolveStep(Tail(stackIn), subsIn, TRUE, Head(stackIn))
         IN  SolveStack(r[1], r[2])

Solve(constraints, simple) ==
    LET r == SolveSimple(simple, constraints, <<>>)
    IN  SolveStack(r[1], r[2])

\* Typed nodes.  variable: the Variable a Variable or VariableAccessExpr
\* node stands for; type: the node's own Type field; function, arguments:
\* the ids of a CallExpr's Function and Arguments.  Ids start at 1 here and
\* at 0 in the source.
NewTyped(kind, variable) ==
    [kind |-> kind, variable |-> variable, type |-> NilType,
     function |-> 0, arguments |-> <<>>, IsFloat |-> FALSE]

\* The inferrer with the declarations it works on; fatal: errPos was called.
Inferrer ==
    [Typeds |-> infTypeds, TypedLookup |-> infTypedLookup,
     Constraints |-> infConstraints,
     SimpleConstraints |-> infSimpleConstraints,
     Variables |-> infVariables, Function |-> infFunction, fatal |-> FALSE]

IdCount(inf) == Len(inf.Typeds)

\* SetType that only tells integer types from the others, whatever the
\* literal.
NumericLiteralSetTypeNoFloat(v, t) ==
    IF t.k = "prim" /\ t.n = "int" THEN t ELSE PRIMITIVE_int

\* NumericLiteral.SetType: a float literal keeps a float type and an
\* integer literal a numeric type; anything else (nil included) gives
\* f64 and int.
NumericLiteralSetType(v, t) ==
    IF v.IsFloat
    THEN IF t.k = "prim" /\ t.n \in {"f32", "f64", "f128"} THEN t ELSE PRIMITIVE_f64
    ELSE IF t.k = "prim" /\ t.n \in {"int", "f32", "f64", "f128"}
         THEN t ELSE PRIMITIVE_int

\* GetType of a Typed node.  A literal without a Type has its default
\* type, an access has the type of what it accesses, a call has the return
\* type of its callee.
RECURSIVE GetType(_, _)
GetType(typed, inf) ==
    CASE typed.kind = "BoolLiteral" -> PRIMITIVE_bool
      [] typed.kind = "NumericLiteral" ->
            IF typed.type # NilType THEN typed.type
            ELSE IF typed.IsFloat THEN PRIMITIVE_f64 ELSE PRIMITIVE_int
      [] typed.kind \in {"Variable", "VariableAccessExpr"} ->
            inf.Variables[typed.variable]
      [] typed.kind = "FunctionAccessExpr" -> inf.Function
      [] typed.kind = "CallExpr" ->
            LET ft == GetType(inf.Typeds[typed.function], inf)
            IN  IF ft.k = "fn" THEN ft.r ELSE NilType

AddConstraint(inf, c) == [inf EXCEPT !.Constraints = Append(@, c)]

AddEqualsConstraint(inf, a, b) ==
    AddConstraint(inf, Constraint(TypeVariable(a), TypeVariable(b)))

AddIsConstraint(inf, id, typref) ==
    AddConstraint(inf, Constraint(TypeVariable(id), typref))

AddSimpleIsConstraint(inf, id, typref) ==
    [inf EXCEPT !.SimpleConstraints =
                    Append(@, Constraint(TypeVariable(id), typref))]

\* HandleTyped up to its switch: a fresh id for a node seen the first time.
Annotate(inf, typed) == [inf EXCEPT !.Typeds = Append(@, typed)]

\* HandleTyped of a Variable; its id afterwards is TypedLookup[variable].
HandleVariable(inf, variable) ==
    IF inf.TypedLookup[variable] # 0
    THEN inf
    ELSE LET id == IdCount(inf) + 1
             inf1 == [Annotate(inf, NewTyped("Variable", variable))
                        EXCEPT !.TypedLookup[variable] = id]
         IN  IF inf.Variables[variable] # NilType
             THEN AddSimpleIsConstraint(inf1, id, inf.Variables[variable])
             ELSE inf1

\* HandleTyped of an expression that is no call; its id is the IdCount
\* before the call plus one.
HandleExpr(inf, typed) ==
    LET id == IdCount(inf) + 1
        inf1 == Annotate(inf, typed)
    IN  CASE typed.kind = "BoolLiteral" ->
                AddSimpleIsConstraint(inf1, id, PRIMITIVE_bool)
          [] typed.kind = "NumericLiteral" -> inf1
          [] typed.kind = "FunctionAccessExpr" ->
                AddSimpleIsConstraint(inf1, id, inf.Function)
          [] typed.kind = "VariableAccessExpr" ->
                LET inf2 == HandleVariable(inf1, typed.variable)
                IN  IF inf.Variables[typed.variable] # NilType
                    THEN AddSimpleIsConstraint(inf2, id,
                                               inf.Variables[typed.variable])
                    ELSE AddEqualsConstraint(inf2, id,
                                             inf2.TypedLookup[typed.variable])

\* The argument loop of a call whose callee has the function type ft.
RECURSIVE HandleKnownArguments(_, _, _, _)
HandleKnownArguments(inf, arguments, idx, ft) ==
    IF idx > Len(arguments)
    THEN inf
    ELSE LET id == IdCount(inf) + 1
             inf1 == HandleExpr(inf, arguments[idx])
         IN  HandleKnownArguments(
                 IF idx > Len(ft.p)
                 THEN inf1
                 ELSE AddSimpleIsConstraint(inf1, id, ft.p[idx]),
                 arguments, idx + 1, ft)

\* The argument loop of a call whose callee has no known function type.
RECURSIVE HandleArguments(_, _, _)
HandleArguments(inf, arguments, idx) ==
    IF idx > Len(arguments)
    THEN inf
    ELSE HandleArguments(HandleExpr(inf, arguments[idx]), arguments, idx + 1)

\* HandleTyped of a CallExpr with the callee function and the literal
\* arguments; every argument takes one id.
HandleCallExpr(inf, function, arguments) ==
    LET id == IdCount(inf) + 1
        fnId == id + 1
        inf1 == HandleExpr(Annotate(inf, NewTyped("CallExpr", 0)), function)
        argIds == [i \in 1..Len(arguments) |-> IdCount(inf1) + i]
        inf2 == [inf1 EXCEPT !.Typeds[id].function = fnId,
                             !.Typeds[id].arguments = argIds]
        ft == GetType(inf2.Typeds[fnId], inf2)
    IN  IF ft.k = "fn"
        THEN IF Len(arguments) < Len(ft.p)
             THEN [inf2 EXCEPT !.fatal = TRUE]
             ELSE AddSimpleIsConstraint(
                      HandleKnownArguments(inf2, arguments, 1, ft), id, ft.r)
        ELSE AddIsConstraint(
                 HandleArguments(inf2, arguments, 1), fnId,
                 FunctionType([i \in 1..Len(arguments) |-> TypeVariable(argIds[i])],
                              TypeVariable(id), FALSE))

\* Finalize.  The substitution of each id: the last simple constraint on
\* it, else the last substitution of Solve on it, else none.
NoSubs == Constraint(NilType, NilType)

LastOn(list, id) ==
    LET on == {i \in 1..Len(list) : IdentSide(list[i].Left) /\ list[i].Left.id = id}
    IN  IF on = {} THEN 0 ELSE CHOOSE i \in on : \A j \in on : j <= i

subList(substitutions, simple, n) ==
    [id \in 1..n |->
        IF LastOn(simple, id) # 0 THEN simple[LastOn(simple, id)]
        ELSE IF LastOn(substitutions, id) # 0
             THEN substitutions[LastOn(substitutions, id)]
             ELSE NoSubs]

\* SetType of the node with the given id.
SetType(inf, id, t) ==
    LET typed == inf.Typeds[id]
    IN  CASE typed.kind = "Variable" ->
                IF inf.Variables[typed.variable] = NilType
                THEN [inf EXCEPT !.Variables[typed.variable] = t]
                ELSE inf
          [] typed.kind = "NumericLiteral" ->
                [inf EXCEPT !.Typeds[id].type = NumericLiteralSetType(typed, t)]
          [] OTHER -> inf

\* The loop that applies the substitutions, from the id on.
RECURSIVE ApplySubstitutions(_, _, _)
ApplySubstitutions(inf, list, id) ==
    IF id > Len(list) \/ inf.fatal
    THEN inf
    ELSE LET subs == list[id]
         IN  ApplySubstitutions(
                 IF subs = NoSubs
                 THEN inf
                 ELSE IF IdentSide(subs.Right)
                      THEN IF GetType(inf.Typeds[id], inf) # NilType
                           THEN inf
                           ELSE [inf EXCEPT !.fatal = TRUE]
                      ELSE SetType(inf, id, subs.Right),
                 list, id + 1)

\* The touch-up of the calls: the callee must have a function type.
TouchUps(inf) ==
    IF \E id \in 1..IdCount(inf) :
          /\ inf.Typeds[id].kind = "CallExpr"
          /\ GetType(inf.Typeds[inf.Typeds[id].function], inf).k # "fn"
    THEN [inf EXCEPT !.fatal = TRUE]
    ELSE inf

\* The last loop of Finalize: a declared variable takes the type of its
\* assignment.
RECURSIVE VariableTypesFromAssignments(_, _, _)
VariableTypesFromAssignments(inf, decls, idx) ==
    IF idx > Len(decls)
    THEN inf
    ELSE VariableTypesFromAssignments(
             [inf EXCEPT !.Variables[decls[idx].variable] =
                             GetType(inf.Typeds[decls[idx].assignment], inf)],
             decls, idx + 1)

Finalize(inf, decls) ==
    LET substitutions == Solve(inf.Constraints, inf.SimpleConstraints)
        leftIsIdent ==
            /\ \A i \in 1..Len(substitutions) : IdentSide(substitutions[i].Left)
            /\ \A i \in 1..Len(inf.SimpleConstraints) :
                  IdentSide(inf.SimpleConstraints[i].Left)
        applied == ApplySubstitutions(
                       inf,
                       subList(substitutions, inf.SimpleConstraints, IdCount(inf)),
                       1)
    IN  IF ~leftIsIdent
        THEN [inf EXCEPT !.fatal = TRUE]
        ELSE IF applied.fatal \/ TouchUps(applied).fatal
             THEN [applied EXCEPT !.fatal = TRUE]
             ELSE VariableTypesFromAssignments(applied, decls, 1)

\* The sub-modules inference is run on.
ParameterTypes == {PRIMITIVE_bool, PRIMITIVE_int}

DeclaredFunctions ==
    {FunctionType(ps, PRIMITIVE_bool, variadic) :
        ps \in SeqsUpTo(ParameterTypes, MaxFnParams), variadic \in BOOLEAN}

\* The types a declaration can write: none, bool, int, (bool, int).
DeclaredTypes ==
    <<NilType, PRIMITIVE_bool, PRIMITIVE_int, PRIMITIVE_f64,
      tupleOf(<<PRIMITIVE_bool, PRIMITIVE_int>>)>>

Literals ==
    {NewTyped("BoolLiteral", 0), NewTyped("NumericLiteral", 0),
     [NewTyped("NumericLiteral", 0) EXCEPT !.IsFloat = TRUE]}

\* The expressions an assignment can be: a literal or an access to a
\* variable declared before.
Assignments ==
    Literals \cup
    {NewTyped("VariableAccessExpr", v) : v \in 1..Len(infVariables)}

\* The callees of a call: the function f or a variable declared before.
Callees ==
    {NewTyped("FunctionAccessExpr", 0)} \cup
    {NewTyped("VariableAccessExpr", v) : v \in 1..Len(infVariables)}

InfInit ==
    /\ infPc = "visit"
    /\ infFunction \in DeclaredFunctions
    /\ infVariables = <<>> /\ infTypeds = <<>> /\ infTypedLookup = <<>>
    /\ infConstraints = <<>> /\ infSimpleConstraints = <<>>
    /\ infDecls = <<>> /\ infVisited = 0

InfSpecInit == InfInit /\ DrvIdle /\ NmIdle /\ VsIdle /\ MgIdle /\ ExIdle /\ RcIdle /\ MtIdle /\ DcIdle /\ MnIdle /\ PsIdle /\ ItIdle /\ SlIdle /\ IdIdle /\ LkIdle /\ ClIdle /\ LxIdle

\* The inferrer's fields after a handler that returned inf.
InfStore(inf) ==
    /\ infTypeds' = inf.Typeds
    /\ infTypedLookup' = inf.TypedLookup
    /\ infConstraints' = inf.Constraints
    /\ infSimpleConstraints' = inf.SimpleConstraints
    /\ infVariables' = inf.Variables
    /\ infPc' = IF inf.fatal THEN "fatal" ELSE infPc

\* The inferrer when the visitor reaches a declaration of n new variables,
\* the first with the declared type.
WithVariables(declared, n) ==
    [Inferrer EXCEPT
        !.Variables = infVariables \o <<declared>> \o [i \in 1..(n - 1) |-> NilType],
        !.TypedLookup = infTypedLookup \o [i \in 1..n |-> 0]]

\* Visit of a VariableDecl without assignment: nothing to infer.
InfVisitDeclaration ==
    /\ infPc = "visit" /\ infVisited < MaxStmts
    /\ \E d \in 2..Len(DeclaredTypes) :
          /\ infVariables' = Append(infVariables, DeclaredTypes[d])
          /\ infTypedLookup' = Append(infTypedLookup, 0)
    /\ infVisited' = infVisited + 1
    /\ UNCHANGED <<infPc, infFunction, infTypeds, infConstraints,
                   infSimpleConstraints, infDecls>>
    /\ UNCHANGED notInf

\* Visit of a VariableDecl with an assignment.
InfVisitVariableDecl ==
    /\ infPc = "visit" /\ infVisited < MaxStmts
    /\ \E d \in 1..Len(DeclaredTypes) : \E assignment \in Assignments :
          LET declared == DeclaredTypes[d]
              variable == Len(infVariables) + 1
              inf0 == WithVariables(declared, 1)
              typed == IF declared # NilType /\ assignment.kind = "NumericLiteral"
                       THEN [assignment EXCEPT !.type = NumericLiteralSetType(assignment, declared)]
                       ELSE assignment
              inf1 == IF declared = NilType /\ GetType(assignment, inf0) # NilType
                      THEN [inf0 EXCEPT !.Variables[variable] = GetType(assignment, inf0)]
                      ELSE inf0
              aid == IdCount(inf1) + 1
              inf2 == HandleVariable(HandleExpr(inf1, typed), variable)
              vid == inf2.TypedLookup[variable]
          IN  /\ InfStore(AddEqualsConstraint(inf2, vid, aid))
              /\ infDecls' = Append(infDecls,
                                    [variable |-> variable, assignment |-> aid,
                                     declared |-> declared])
    /\ infVisited' = infVisited + 1
    /\ UNCHANGED infFunction
    /\ UNCHANGED notInf

\* Visit of a DestructVarDecl of two variables, none discarded.
InfVisitDestructVarDecl ==
    /\ infPc = "visit" /\ infVisited < MaxStmts
    /\ \E assignment \in Assignments :
          LET first == Len(infVariables) + 1
              id == IdCount(Inferrer) + 1
              inf1 == HandleExpr(WithVariables(NilType, 2), assignment)
              tt == GetType(inf1.Typeds[id], inf1)
              inf2 == HandleVariable(HandleVariable(inf1, first), first + 1)
          IN  IF tt.k = "tuple"
              THEN IF Len(tt.m) < 2
                   THEN InfStore([inf1 EXCEPT !.fatal = TRUE])
                   ELSE InfStore([inf1 EXCEPT !.Variables[first] = tt.m[1],
                                              !.Variables[first + 1] = tt.m[2]])
              ELSE InfStore(AddIsConstraint(
                       inf2, id,
                       tupleOf(<<TypeVariable(inf2.TypedLookup[first]),
                                 TypeVariable(inf2.TypedLookup[first + 1])>>)))
    /\ infVisited' = infVisited + 1
    /\ UNCHANGED <<infFunction, infDecls>>
    /\ UNCHANGED notInf

\* Visit of a CallStat.
InfVisitCallStat ==
    /\ infPc = "visit" /\ infVisited < MaxStmts
    /\ \E function \in Callees :
       \E arguments \in SeqsUpTo(Literals, MaxCallArgs) :
          InfStore(HandleCallExpr(Inferrer, function, arguments))
    /\ infVisited' = infVisited + 1
    /\ UNCHANGED <<infFunction, infDecls>>
    /\ UNCHANGED notInf

\* The visitor has reached every node: Infer calls Finalize.
InfFinalize ==
    /\ infPc = "visit"
    /\ LET inf == Finalize(Inferrer, infDecls)
       IN  /\ infTypeds' = inf.Typeds
           /\ infVariables' = inf.Variables
           /\ infPc' = IF inf.fatal THEN "fatal" ELSE "done"
    /\ UNCHANGED <<infFunction, infTypedLookup, infConstraints,
                   infSimpleConstraints, infDecls, infVisited>>
    /\ UNCHANGED notInf

InfNext ==
    \/ InfVisitDeclaration
    \/ InfVisitVariableDecl
    \/ InfVisitDestructVarDecl
    \/ InfVisitCallStat
    \/ InfFinalize

SpecInfer == InfSpecInit /\ [][InfNext]_vars

\* The type is or contains a type variable.  (The statements modelled here
\* produce no ConstructorType.)
RECURSIVE ContainsTypeVariable(_)
ContainsTypeVariable(t) ==
    CASE t.k = "var" -> TRUE
      [] t.k = "fn" ->
            \/ ContainsTypeVariable(t.r)
            \/ \E i \in 1..Len(t.p) : ContainsTypeVariable(t.p[i])
      [] t.k = "tuple" -> \E i \in 1..Len(t.m) : ContainsTypeVariable(t.m[i])
      [] OTHER -> FALSE

FullyConcrete(t) == t # NilType /\ ~ContainsTypeVariable(t)

\* C1: after Infer has finished on a sub-module without a fatal error, no
\* Typed node of it (expression or variable) has a type that is or contains
\* a TypeVariable; every expression and every variable has a fully
\* concrete type reference.
C1_TypesConcreteAfterInfer ==
    infPc = "done" =>
        /\ \A v \in 1..Len(infVariables) : FullyConcrete(infVariables[v])
        /\ \A id \in 1..Len(infTypeds) :
              FullyConcrete(GetType(infTypeds[id], Inferrer))

\* C10: for every CallExpr of a sub-module on which inference finished
\* without a fatal error, the callee's type is a function type, there are
\* at least as many arguments as parameters and exactly as many when the
\* callee is not variadic, and each argument's type equals the type of the
\* corresponding parameter.
C10_CallsMatchSignature ==
    infPc = "done" =>
        \A id \in 1..Len(infTypeds) :
            infTypeds[id].kind = "CallExpr" =>
                LET ft == GetType(infTypeds[infTypeds[id].function], Inferrer)
                    arguments == infTypeds[id].arguments
                IN  /\ ft.k = "fn"
                    /\ Len(arguments) >= Len(ft.p)
                    /\ ~ft.variadic => Len(arguments) = Len(ft.p)
                    /\ \A i \in 1..Min(Len(arguments), Len(ft.p)) :
                          GetType(infTypeds[arguments[i]], Inferrer) = ft.p[i]

\* The constraint equates two concrete types that no rule of SolveStep
\* reconciles: different primitives, a function against a non-function,
\* tuples of different length, functions with different parameter counts.
Irreconcilable(c) ==
    /\ ~IdentSide(c.Left) /\ ~IdentSide(c.Right)
    /\ c.Left # c.Right
    /\ \/ c.Left.k # c.Right.k
       \/ c.Left.k = "prim"
       \/ c.Left.k = "fn" /\ Len(c.Left.p) # Len(c.Right.p)
       \/ c.Left.k = "tuple" /\ Len(c.Left.m) # Len(c.Right.m)

\* Solve takes an irreconcilable constraint from the stack.
RECURSIVE MeetsIrreconcilable(_, _)
MeetsIrreconcilable(stackIn, subsIn) ==
    IF stackIn = <<>>
    THEN FALSE
    ELSE LET r == SolveStep(Tail(stackIn), subsIn, TRUE, Head(stackIn))
         IN  Irreconcilable(Head(stackIn)) \/ MeetsIrreconcilable(r[1], r[2])

TypeMismatch ==
    LET r == SolveSimple(infSimpleConstraints, infConstraints, <<>>)
    IN  MeetsIrreconcilable(r[1], r[2])

\* C11: when the constraints of a sub-module equate two concrete types
\* that no unification rule can reconcile, inference ends with a fatal
\* type error; it never finishes without one.
C11_MismatchIsFatal == (infPc = "done") => ~TypeMismatch



\* The declarations `name := literal` with a numeric literal and no
\* declared type.
BareLiteralDecls ==
    {i \in 1..Len(infDecls) :
        /\ infDecls[i].declared = NilType
        /\ infTypeds[infDecls[i].assignment].kind = "NumericLiteral"}

\* The default type of a numeric literal.
DefaultType(literal) == IF literal.IsFloat THEN PRIMITIVE_f64 ELSE PRIMITIVE_int

\* C14: after inference a numeric literal that initialises a variable
\* declared without a type has type int when it is an integer literal and
\* f64 when it is a float literal, and so has the variable.
C14_LiteralDefaults ==
    infPc = "done" =>
        \A i \in BareLiteralDecls :
            LET literal == infTypeds[infDecls[i].assignment]
            IN  /\ GetType(literal, Inferrer) = DefaultType(literal)
                /\ infVariables[infDecls[i].variable] = DefaultType(literal)

\* Inference has finished on `a := 5` and `b := 5.0`.
C14_Witness ==
    /\ infPc = "done"
    /\ Len(infDecls) = 2
    /\ BareLiteralDecls = {1, 2}
    /\ ~infTypeds[infDecls[1].assignment].IsFloat
    /\ infTypeds[infDecls[2].assignment].IsFloat
    /\ infVariables[infDecls[1].variable] = PRIMITIVE_int
    /\ infVariables[infDecls[2].variable] = PRIMITIVE_f64

\* C28: inference leaves a declared variable type as it is: after Finalize
\* the variable of every declaration `x: T = e` has the type T.
C28_DeclaredTypeKept ==
    infPc = "done" =>
        \A i \in 1..Len(infDecls) :
            infDecls[i].declared # NilType =>
                infVariables[infDecls[i].variable] = infDecls[i].declared

(***************************************************************************)
(* PART 6.  Generic argument extraction (args.go, ExtractTypeVariable and  *)
(* AddChildren) and the generic context's Replace.  Types are the records  *)
(* of PART 5 with two more kinds: pointers and substitution types.         *)
(***************************************************************************)

\* Nesting depth of the patterns and values tried.
MaxNest == 1

\* PointerType{Addressee}.
PointerOf(addressee) == [k |-> "ptr", a |-> addressee]

\* &SubstitutionType{Name}.
SubstitutionType(name) == [k |-> "subst", n |-> name]

\* The generic parameters a pattern may mention.
SubstNames == {"T", "U"}

\* A map with no entry (make(map[string]*TypeReference)).
NoBindings == [n \in SubstNames |-> NilType]

\* AddChildren: the children of typ appended to dest.  A function type
\* contributes its parameters (the model has no receivers) and not its
\* return type.
AddChildren(typ, dest) ==
    CASE typ.k = "ptr"   -> Append(dest, typ.a)
      [] typ.k = "tuple" -> dest \o typ.m
      [] typ.k = "fn"    -> dest \o typ.p
      [] OTHER           -> dest

\* The loop of ExtractTypeVariable from index i on.  The result is
\* [err, res]: err is "none", "mismatch" (the returned error) or "panic"
\* (vs[i] read past the end of vs).
RECURSIVE ExtractLoop(_, _, _, _)
ExtractLoop(ps, vs, i, res) ==
    IF i > Len(ps) THEN [err |-> "none", res |-> res]
    ELSE IF i > Len(vs) THEN [err |-> "panic", res |-> NoBindings]
    ELSE
        LET ppart == ps[i]
            vpart == vs[i]
        IN  IF ppart.k = "subst"
            THEN IF res[ppart.n] = NilType \/ res[ppart.n].k = "subst"
                 THEN ExtractLoop(ps, vs, i + 1, [res EXCEPT ![ppart.n] = vpart])
                 ELSE ExtractLoop(ps, vs, i + 1, res)
            ELSE IF ppart.k = "var" \/ vpart.k = "var"
            THEN ExtractLoop(ps, vs, i + 1, res)
            ELSE
                LET pp == IF ppart.k = "ptr" /\ vpart.k # "ptr" THEN ppart.a ELSE ppart
                    vp == IF ppart.k # "ptr" /\ vpart.k = "ptr" THEN vpart.a ELSE vpart
                IN  IF pp.k # vp.k
                    THEN [err |-> "mismatch", res |-> NoBindings]
                    ELSE ExtractLoop(AddChildren(pp, ps), AddChildren(vp, vs),
                                     i + 1, res)

\* ExtractTypeVariable(pattern, value).
ExtractTypeVariable(pattern, value) ==
    ExtractLoop(<<pattern>>, <<value>>, 1, NoBindings)

\* GenericContext.Replace: descends typ and substitutes wherever a
\* substitution type with a bound name is found.
RECURSIVE GconReplace(_, _)
GconReplace(gcon, typ) ==
    CASE typ.k = "subst" ->
            IF gcon[typ.n] = NilType THEN typ ELSE gcon[typ.n]
      [] typ.k = "ptr"   -> PointerOf(GconReplace(gcon, typ.a))
      [] typ.k = "tuple" ->
            tupleOf([j \in 1..Len(typ.m) |-> GconReplace(gcon, typ.m[j])])
      [] typ.k = "fn"    ->
            FunctionType([j \in 1..Len(typ.p) |-> GconReplace(gcon, typ.p[j])],
                         GconReplace(gcon, typ.r), typ.variadic)
      [] OTHER           -> typ

\* The types of nesting depth at most n over the given leaves.
RECURSIVE TypesOfNest(_, _)
TypesOfNest(n, leaves) ==
    IF n = 0 THEN leaves
    ELSE LET S == TypesOfNest(n - 1, leaves)
         IN  S \cup {PointerOf(t) : t \in S}
               \cup {tupleOf(<<t>>) : t \in S}
               \cup {tupleOf(<<t, u>>) : t \in S, u \in S}
               \cup {FunctionType(<<>>, r, FALSE) : r \in S}
               \cup {FunctionType(<<t>>, r, FALSE) : t \in S, r \in S}

\* Concrete leaves.
ExLeaves == {PRIMITIVE_int, PRIMITIVE_bool}

\* Patterns: types over the concrete leaves and the generic parameters.
ExPatterns ==
    TypesOfNest(MaxNest, ExLeaves \cup {SubstitutionType(n) : n \in SubstNames})

\* Values: concrete types, with up to one more pointer level than a pattern.
ExValues ==
    LET S == TypesOfNest(MaxNest, ExLeaves)
    IN  S \cup {PointerOf(t) : t \in S}

\* The types occurring in typ, typ included.
RECURSIVE SubTypes(_)
SubTypes(typ) ==
    {typ} \cup
    CASE typ.k = "ptr"   -> SubTypes(typ.a)
      [] typ.k = "tuple" -> UNION {SubTypes(typ.m[j]) : j \in 1..Len(typ.m)}
      [] typ.k = "fn"    ->
            SubTypes(typ.r) \cup UNION {SubTypes(typ.p[j]) : j \in 1..Len(typ.p)}
      [] OTHER           -> {}

\* The pattern matches the value: some binding of its generic parameters
\* turns it into the value.
Matches(pattern, value) ==
    \E gcon \in [SubstNames -> SubTypes(value) \cup {NilType}] :
        GconReplace(gcon, pattern) = value

ExInit ==
    /\ exPc = "input"
    /\ exPattern \in ExPatterns
    /\ exValue \in ExValues
    /\ exTypes = <<>>
    /\ exApplied = <<>>

ExSpecInit == ExInit /\ DrvIdle /\ NmIdle /\ VsIdle /\ MgIdle /\ InfIdle /\ RcIdle /\ MtIdle /\ DcIdle /\ MnIdle /\ PsIdle /\ ItIdle /\ SlIdle /\ IdIdle /\ LkIdle /\ ClIdle /\ LxIdle

\* The call ExtractTypeVariable(exPattern, exValue).
ExExtract ==
    /\ exPc = "input"
    /\ LET r == ExtractTypeVariable(exPattern, exValue)
       IN  /\ exPc' = IF r.err = "none" THEN "extracted" ELSE r.err
           /\ exTypes' = r.res
    /\ UNCHANGED <<exPattern, exValue, exApplied>>
    /\ UNCHANGED notEx

\* The returned map used as a generic context on the pattern.
ExReplace ==
    /\ exPc = "extracted"
    /\ exApplied' = GconReplace(exTypes, exPattern)
    /\ exPc' = "applied"
    /\ UNCHANGED <<exPattern, exValue, exTypes>>
    /\ UNCHANGED notEx

ExNext == ExExtract \/ ExReplace

SpecExtract == ExSpecInit /\ [][ExNext]_vars

\* C12: whenever the pattern matches the value, extraction succeeds and
\* the extracted bindings applied to the pattern give back the value.
C12_ExtractThenApply ==
    Matches(exPattern, exValue) =>
        /\ exPc \notin {"mismatch", "panic"}
        /\ exPc = "applied" => exApplied = exValue

(***************************************************************************)
(* PART 7.  Automatic dereference and address-of on the receiver of a      *)
(* method call (args.go, Finalize, the CallExpr case).                     *)
(***************************************************************************)

\* Most pointer levels of a receiver expression or a receiver type.
MaxLevels == 2

\* Most typed nodes of the sub-module.
MaxTypeds == 3

\* No expression (a nil ReceiverAccess).
NoExpr == [node |-> "nil"]

\* An access to a variable of the given type.
VariableAccess(typ) == [node |-> "VariableAccessExpr", type |-> typ]

\* &DerefAccessExpr{Expr: expr}.
DerefAccessExpr(expr) == [node |-> "DerefAccessExpr", Expr |-> expr]

\* &PointerToExpr{IsMutable: true, Access: access}.
PointerToExpr(access) ==
    [node |-> "PointerToExpr", IsMutable |-> TRUE, Access |-> access]

\* A pointer of n levels to int.
RECURSIVE Pointers(_)
Pointers(n) == IF n = 0 THEN PRIMITIVE_int ELSE PointerOf(Pointers(n - 1))

\* BaseType.LevelsOfIndirection().
RECURSIVE LevelsOfIndirection(_)
LevelsOfIndirection(typ) ==
    IF typ.k = "ptr" THEN LevelsOfIndirection(typ.a) + 1 ELSE 0

\* GetType of an access expression: a dereference has the addressee of
\* its operand's type, an address-of a pointer to its operand's type.
RECURSIVE AccessGetType(_)
AccessGetType(expr) ==
    CASE expr.node = "VariableAccessExpr" -> expr.type
      [] expr.node = "DerefAccessExpr" ->
            LET t == AccessGetType(expr.Expr)
            IN  IF t.k = "ptr" THEN t.a ELSE NilType
      [] expr.node = "PointerToExpr" -> PointerOf(AccessGetType(expr.Access))
      [] OTHER -> NilType

\* A call: its receiver expression and the receiver type of the function
\* it calls (NilType: the function has no receiver).
CallExpr(access, recType) ==
    [node |-> "CallExpr", ReceiverAccess |-> access, recType |-> recType]

\* A typed node that is no call.
OtherTyped == [node |-> "BoolLiteral", ReceiverAccess |-> NoExpr, recType |-> NilType]

\* The first block with the comparison >= in place of ==.
AutoDerefAnyDepth(n) ==
    IF /\ n.recType # NilType
       /\ LevelsOfIndirection(AccessGetType(n.ReceiverAccess))
            >= LevelsOfIndirection(n.recType) + 1
    THEN [n EXCEPT !.ReceiverAccess = DerefAccessExpr(n.ReceiverAccess)]
    ELSE n

\* "Insert a deref in cases where the code tries to call a value receiver
\* with a pointer type."
AutoDeref(n) ==
    IF /\ n.recType # NilType
       /\ LevelsOfIndirection(AccessGetType(n.ReceiverAccess))
            = LevelsOfIndirection(n.recType) + 1
    THEN [n EXCEPT !.ReceiverAccess = DerefAccessExpr(n.ReceiverAccess)]
    ELSE n

\* "Insert a ref in cases where the code tries to call a pointer receiver
\* with a value type."  It reads the receiver expression again.
AutoRef(n) ==
    IF /\ n.recType # NilType
       /\ LevelsOfIndirection(AccessGetType(n.ReceiverAccess))
            = LevelsOfIndirection(n.recType) - 1
    THEN [n EXCEPT !.ReceiverAccess = PointerToExpr(n.ReceiverAccess)]
    ELSE n

\* The typed nodes a sub-module may hold: method calls on a variable, a
\* call of a function without receiver, and a node that is no call.
RcNodes ==
    {CallExpr(VariableAccess(Pointers(a)), Pointers(r)) :
        a \in 0..MaxLevels, r \in 0..MaxLevels}
    \cup {CallExpr(NoExpr, NilType), OtherTyped}

RcInit ==
    /\ rcIdx = 1
    /\ rcTypeds \in UNION {[1..n -> RcNodes] : n \in 1..MaxTypeds}
    /\ rcSource = rcTypeds

RcSpecInit == RcInit /\ DrvIdle /\ NmIdle /\ VsIdle /\ MgIdle /\ InfIdle /\ ExIdle /\ MtIdle /\ DcIdle /\ MnIdle /\ PsIdle /\ ItIdle /\ SlIdle /\ IdIdle /\ LkIdle /\ ClIdle /\ LxIdle

\* One round of the loop on a CallExpr: both blocks, in order.
RcFinalizeCall ==
    /\ rcIdx <= Len(rcTypeds)
    /\ rcTypeds[rcIdx].node = "CallExpr"
    /\ rcTypeds' = [rcTypeds EXCEPT ![rcIdx] = AutoRef(AutoDeref(rcTypeds[rcIdx]))]
    /\ rcIdx' = rcIdx + 1
    /\ UNCHANGED rcSource
    /\ UNCHANGED notRc

\* One round of the loop on a node that is no call.
RcFinalizeOther ==
    /\ rcIdx <= Len(rcTypeds)
    /\ rcTypeds[rcIdx].node # "CallExpr"
    /\ rcIdx' = rcIdx + 1
    /\ UNCHANGED <<rcTypeds, rcSource>>
    /\ UNCHANGED notRc

RcNext == RcFinalizeCall \/ RcFinalizeOther

SpecReceiver == RcSpecInit /\ [][RcNext]_vars

\* The method calls the loop has passed.
RcPassed ==
    {i \in 1..Len(rcSource) :
        i < rcIdx /\ rcSource[i].node = "CallExpr" /\ rcSource[i].recType # NilType}

\* Pointer levels of the receiver expression of call i before the loop,
\* minus those of the receiver type.
RcDifference(i) ==
    LevelsOfIndirection(AccessGetType(rcSource[i].ReceiverAccess))
        - LevelsOfIndirection(rcSource[i].recType)

\* C13: a receiver expression with one pointer level more than the
\* receiver type is wrapped in exactly one dereference, one with one
\* level fewer in exactly one address-of, and any other is left as it was.
C13_OneLevelBridged ==
    \A i \in RcPassed :
        LET before == rcSource[i].ReceiverAccess
            after  == rcTypeds[i].ReceiverAccess
        IN  /\ RcDifference(i) = 1 => after = DerefAccessExpr(before)
            /\ RcDifference(i) = -1 => after = PointerToExpr(before)
            /\ RcDifference(i) \notin {1, -1} => after = before

\* The loop has passed a call that got a dereference, one that got an
\* address-of and one two levels apart that was left alone.
C13_Witness ==
    /\ \E i \in RcPassed :
        RcDifference(i) = 1 /\ rcTypeds[i].ReceiverAccess.node = "DerefAccessExpr"
    /\ \E i \in RcPassed :
        RcDifference(i) = -1 /\ rcTypeds[i].ReceiverAccess.node = "PointerToExpr"
    /\ \E i \in RcPassed :
        RcDifference(i) \in {2, -2} /\ rcTypeds[i] = rcSource[i]

(***************************************************************************)
(* PART 8.  Attaching methods to named types (resolve.go): the static      *)
(* methods in ResolveTopLevelDecls, the methods in PostVisit, after        *)
(* ResolveType has checked the receiver of the function type.  The module  *)
(* being resolved is CurModule.                                            *)
(***************************************************************************)

\* Most function declarations of the module.
MaxFns == 2

\* &NamedType{Name, ParentModule}.
NamedType(name, parentModule) ==
    [k |-> "named", n |-> name, ParentModule |-> parentModule]

\* The named types of the program: one in the module being resolved and
\* one in another module.
NamedTypes == {NamedType("S", m) : m \in ModuleNamesOfIdents}

\* TypeWithoutPointers / TypeReferenceWithoutPointers.
RECURSIVE TypeWithoutPointers(_)
TypeWithoutPointers(typ) ==
    IF typ.k = "ptr" THEN TypeWithoutPointers(typ.a) ELSE typ

\* checkReceiverType without the comparison of the modules.
checkReceiverTypeAnyModule(t) == TypeWithoutPointers(t).k = "named"

\* checkReceiverType: TRUE if no error; FALSE stands for the exit in
\* Resolver.err.
checkReceiverType(t) ==
    /\ TypeWithoutPointers(t).k = "named"
    /\ TypeWithoutPointers(t).ParentModule = CurModule

\* The types a receiver or static receiver may be written with.
ReceiverTypes ==
    NamedTypes \cup {PointerOf(t) : t \in NamedTypes} \cup {PRIMITIVE_int}

\* A FunctionDecl: a free function, a method, or a static method.
FunctionDecls ==
    {[receiver |-> "none", type |-> NilType]} \cup
    {[receiver |-> r, type |-> t] : r \in {"method", "static"}, t \in ReceiverTypes}

\* No function attached to any type.
NoMethods == [t \in NamedTypes |-> <<>>]

\* The second loop of ResolveTopLevelDecls from node i on: every static
\* function is checked and attached.  The result is <<fatal, lists>>.
RECURSIVE StaticFuncList(_, _, _)
StaticFuncList(nodes, i, lists) ==
    IF i > Len(nodes) THEN <<FALSE, lists>>
    ELSE IF nodes[i].receiver # "static" THEN StaticFuncList(nodes, i + 1, lists)
    ELSE IF ~checkReceiverType(nodes[i].type) THEN <<TRUE, lists>>
    ELSE StaticFuncList(nodes, i + 1,
             [lists EXCEPT ![nodes[i].type] = Append(@, i)])

MtInit ==
    /\ mtPc = "decls"
    /\ mtNodes \in UNION {[1..n -> FunctionDecls] : n \in 1..MaxFns}
    /\ mtIdx = 1
    /\ mtMethods = NoMethods
    /\ mtStaticMethods = NoMethods

MtSpecInit == MtInit /\ DrvIdle /\ NmIdle /\ VsIdle /\ MgIdle /\ InfIdle /\ ExIdle /\ RcIdle /\ DcIdle /\ MnIdle /\ PsIdle /\ ItIdle /\ SlIdle /\ IdIdle /\ LkIdle /\ ClIdle /\ LxIdle

\* ResolveTopLevelDecls.
MtResolveTopLevelDecls ==
    /\ mtPc = "decls"
    /\ LET r == StaticFuncList(mtNodes, 1, mtStaticMethods)
       IN  /\ mtPc' = IF r[1] THEN "fatal" ELSE "descent"
           /\ mtStaticMethods' = r[2]
    /\ UNCHANGED <<mtNodes, mtIdx, mtMethods>>
    /\ UNCHANGED notMt

\* ResolveNode on a FunctionDecl: ResolveType of the function type checks
\* its receiver.
MtResolveNode ==
    /\ mtPc = "descent"
    /\ mtPc' = IF mtNodes[mtIdx].receiver = "method"
                  /\ ~checkReceiverType(mtNodes[mtIdx].type)
               THEN "fatal" ELSE "post"
    /\ UNCHANGED <<mtNodes, mtIdx, mtMethods, mtStaticMethods>>
    /\ UNCHANGED notMt

\* PostVisit on a FunctionDecl: the method is stored in the type of the
\* receiver.
MtPostVisit ==
    /\ mtPc = "post"
    /\ LET n == mtNodes[mtIdx]
           named == TypeWithoutPointers(n.type)
       IN  mtMethods' = IF n.receiver = "method" /\ named.k = "named"
                        THEN [mtMethods EXCEPT ![named] = Append(@, mtIdx)]
                        ELSE mtMethods
    /\ mtIdx' = mtIdx + 1
    /\ mtPc' = IF mtIdx = Len(mtNodes) THEN "done" ELSE "descent"
    /\ UNCHANGED <<mtNodes, mtStaticMethods>>
    /\ UNCHANGED notMt

MtNext == MtResolveTopLevelDecls \/ MtResolveNode \/ MtPostVisit

SpecMethods == MtSpecInit /\ [][MtNext]_vars

\* The functions in a list of the named type.
MtAttached(t) ==
    {mtMethods[t][j] : j \in 1..Len(mtMethods[t])} \cup
    {mtStaticMethods[t][j] : j \in 1..Len(mtStaticMethods[t])}

\* The function is a method or static method whose receiver is no named
\* type of the module that declares it.
MtForeign(i) ==
    /\ mtNodes[i].receiver # "none"
    /\ \/ TypeWithoutPointers(mtNodes[i].type).k # "named"
       \/ TypeWithoutPointers(mtNodes[i].type).ParentModule # CurModule

\* C16: every function in a method list or static-method list of a named
\* type was declared in the module that declares the type, and a function
\* whose receiver is no named type of its module is in no list; once the
\* resolver has handled such a function the run is fatal.
C16_MethodsShareModule ==
    /\ \A t \in NamedTypes :
          \A i \in MtAttached(t) :
             t.ParentModule = CurModule /\ TypeWithoutPointers(mtNodes[i].type) = t
    /\ \A i \in 1..Len(mtNodes) :
          MtForeign(i) => \A t \in NamedTypes : i \notin MtAttached(t)
    /\ mtPc = "done" => \A i \in 1..Len(mtNodes) : ~MtForeign(i)

\* Resolution has ended with a method and a static method attached to the
\* type of the module.
C16_Witness ==
    /\ mtPc = "done"
    /\ Len(mtMethods[NamedType("S", CurModule)]) = 1
    /\ Len(mtStaticMethods[NamedType("S", CurModule)]) = 1

(***************************************************************************)
(* PART 9.  Redeclarations (resolve.go): ResolveTopLevelDecls inserts the  *)
(* top-level declarations of every sub-module into the module scope or    *)
(* the C scope, the descent inserts variables into the scope it is in.     *)
(* A scope holds three maps keyed by name; here each is the set of its     *)
(* keys.                                                                   *)
(***************************************************************************)

\* Most top-level nodes of the module.
MaxNodes == 2

\* Most parameters, and most local variables, of a function.
MaxVars == 2

DeclNames == {"a", "b"}

\* newScope.
NewScope == [Types |-> {}, Functions |-> {}, Variables |-> {}]

\* Scope.InsertType, InsertFunction, InsertVariable: prev tells whether
\* there was a binding of the name before.
InsertType(scope, name) ==
    [prev |-> name \in scope.Types,
     scope |-> [scope EXCEPT !.Types = @ \cup {name}]]

InsertFunction(scope, name) ==
    [prev |-> name \in scope.Functions,
     scope |-> [scope EXCEPT !.Functions = @ \cup {name}]]

InsertVariable(scope, name) ==
    [prev |-> name \in scope.Variables,
     scope |-> [scope EXCEPT !.Variables = @ \cup {name}]]

\* A top-level node: its sub-module, its kind, its name; for a function
\* whether it has the attribute C and whether it has a receiver or static
\* receiver.
TopLevelNodes ==
    {[part |-> pt, kind |-> kd, name |-> nm, C |-> FALSE, receiver |-> FALSE] :
        pt \in {"x", "y"}, kd \in {"TypeDecl", "VariableDecl"}, nm \in DeclNames}
    \cup
    {[part |-> pt, kind |-> "FunctionDecl", name |-> nm, C |-> c, receiver |-> r] :
        pt \in {"x", "y"}, nm \in DeclNames, c \in BOOLEAN, r \in BOOLEAN}

\* The loop body without the check of the functions.
TopLevelDeclNoFunctionCheck(node, mscope, cscope) ==
    CASE node.kind = "TypeDecl" ->
            LET r == InsertType(mscope, node.name)
            IN  [fatal |-> r.prev, modScope |-> r.scope, cScope |-> cscope]
      [] node.kind = "VariableDecl" ->
            LET r == InsertVariable(mscope, node.name)
            IN  [fatal |-> r.prev, modScope |-> r.scope, cScope |-> cscope]
      [] OTHER -> [fatal |-> FALSE, modScope |-> mscope, cScope |-> cscope]

\* The body of the first loop of ResolveTopLevelDecls on one node; curScope
\* is the module scope there.
TopLevelDecl(node, mscope, cscope) ==
    CASE node.kind = "TypeDecl" ->
            LET r == InsertType(mscope, node.name)
            IN  [fatal |-> r.prev, modScope |-> r.scope, cScope |-> cscope]
      [] node.kind = "FunctionDecl" /\ ~node.receiver /\ node.C ->
            LET r == InsertFunction(cscope, node.name)
            IN  [fatal |-> r.prev, modScope |-> mscope, cScope |-> r.scope]
      [] node.kind = "FunctionDecl" /\ ~node.receiver /\ ~node.C ->
            LET r == InsertFunction(mscope, node.name)
            IN  [fatal |-> r.prev, modScope |-> r.scope, cScope |-> cscope]
      [] node.kind = "VariableDecl" ->
            LET r == InsertVariable(mscope, node.name)
            IN  [fatal |-> r.prev, modScope |-> r.scope, cScope |-> cscope]
      [] OTHER -> [fatal |-> FALSE, modScope |-> mscope, cScope |-> cscope]

\* ResolveNode on each VariableDecl of a list, in one scope.
RECURSIVE InsertVariables(_, _)
InsertVariables(scope, names) ==
    IF names = <<>> THEN [prev |-> FALSE, scope |-> scope]
    ELSE LET r == InsertVariable(scope, Head(names))
         IN  IF r.prev THEN r ELSE InsertVariables(r.scope, Tail(names))

\* The descent through a function: ResolveNode enters a scope for the
\* receiver variable, VisitFunction one for the receiver and the
\* parameters, the body block one more unless it is NonScoping.  TRUE if
\* an insertion found a previous binding.
VisitFunctionScopes(fn) ==
    LET receiver == IF fn.receiver THEN <<"this">> ELSE <<>>
        outer == InsertVariables(NewScope, receiver)
        inner == InsertVariables(NewScope, receiver \o fn.Parameters)
        block == IF fn.NonScoping
                 THEN InsertVariables(inner.scope, fn.Locals)
                 ELSE InsertVariables(NewScope, fn.Locals)
    IN  outer.prev \/ inner.prev \/ block.prev

Names(n) == UNION {[1..k -> DeclNames] : k \in 0..n}

DcInit ==
    /\ dcPc = "decls"
    /\ dcNodes \in UNION {[1..n -> TopLevelNodes] : n \in 1..MaxNodes}
    /\ \A i \in 1..(Len(dcNodes) - 1) :
          dcNodes[i].part = "y" => dcNodes[i + 1].part = "y"
    /\ dcIdx = 0
    /\ dcModScope = NewScope
    /\ dcCScope = NewScope
    /\ dcCurScope = NewScope
    /\ dcFunction = <<>>

DcSpecInit == DcInit /\ DrvIdle /\ NmIdle /\ VsIdle /\ MgIdle /\ InfIdle /\ ExIdle /\ RcIdle /\ MtIdle /\ MnIdle /\ PsIdle /\ ItIdle /\ SlIdle /\ IdIdle /\ LkIdle /\ ClIdle /\ LxIdle

\* One round of the first loop of ResolveTopLevelDecls; after the last
\* node the descent starts.
DcTopLevelDecl ==
    /\ dcPc = "decls"
    /\ LET r == TopLevelDecl(dcNodes[dcIdx + 1], dcModScope, dcCScope)
           last == dcIdx + 1 = Len(dcNodes)
       IN  /\ dcModScope' = r.modScope
           /\ dcCScope' = r.cScope
           /\ dcPc' = IF r.fatal THEN "fatal" ELSE IF last THEN "descent" ELSE "decls"
           /\ dcIdx' = IF ~r.fatal /\ last THEN 0 ELSE dcIdx + 1
    /\ UNCHANGED <<dcNodes, dcCurScope, dcFunction>>
    /\ UNCHANGED notDc

\* The scope the descent is in at its next node: VisitSubmodule enters a
\* scope before the first node of a sub-module.
DcScopeAt ==
    IF dcIdx = 0 \/ dcNodes[dcIdx].part # dcNodes[dcIdx + 1].part
    THEN NewScope ELSE dcCurScope

DcAfterVisit(fatal) ==
    /\ dcPc' = IF fatal THEN "fatal"
               ELSE IF dcIdx + 1 = Len(dcNodes) THEN "done" ELSE "descent"
    /\ dcIdx' = dcIdx + 1

\* The descent on a top-level VariableDecl.
DcVisitVariableDecl ==
    /\ dcPc = "descent" /\ dcNodes[dcIdx + 1].kind = "VariableDecl"
    /\ LET r == InsertVariable(DcScopeAt, dcNodes[dcIdx + 1].name)
       IN  dcCurScope' = r.scope /\ DcAfterVisit(r.prev)
    /\ UNCHANGED <<dcNodes, dcModScope, dcCScope, dcFunction>>
    /\ UNCHANGED notDc

\* The descent on a top-level TypeDecl: nothing is inserted.
DcVisitTypeDecl ==
    /\ dcPc = "descent" /\ dcNodes[dcIdx + 1].kind = "TypeDecl"
    /\ dcCurScope' = DcScopeAt /\ DcAfterVisit(FALSE)
    /\ UNCHANGED <<dcNodes, dcModScope, dcCScope, dcFunction>>
    /\ UNCHANGED notDc

\* The descent on a FunctionDecl with its parameters and the variables
\* declared in its body block; a function with the attribute C has no
\* body.
DcVisitFunctionDecl ==
    /\ dcPc = "descent" /\ dcNodes[dcIdx + 1].kind = "FunctionDecl"
    /\ \E parameters \in Names(MaxVars), locals \in Names(MaxVars),
          nonScoping \in BOOLEAN :
          LET fn == [receiver |-> dcNodes[dcIdx + 1].receiver,
                     Parameters |-> parameters, Locals |-> locals,
                     NonScoping |-> nonScoping]
          IN  /\ dcNodes[dcIdx + 1].C => locals = <<>> /\ ~nonScoping
              /\ dcFunction' = fn
              /\ DcAfterVisit(VisitFunctionScopes(fn))
    /\ dcCurScope' = DcScopeAt
    /\ UNCHANGED <<dcNodes, dcModScope, dcCScope>>
    /\ UNCHANGED notDc

DcNext ==
    \/ DcTopLevelDecl \/ DcVisitVariableDecl \/ DcVisitTypeDecl
    \/ DcVisitFunctionDecl

SpecDecl == DcSpecInit /\ [][DcNext]_vars

\* Two top-level nodes declare the same name in the same scope: two types,
\* two variables, or two functions without receiver that both have or
\* both lack the attribute C.
SameScopeSameName(i, j) ==
    /\ dcNodes[i].kind = dcNodes[j].kind
    /\ dcNodes[i].name = dcNodes[j].name
    /\ dcNodes[i].kind = "FunctionDecl" =>
          /\ ~dcNodes[i].receiver /\ ~dcNodes[j].receiver
          /\ dcNodes[i].C = dcNodes[j].C

\* The nodes the first loop of ResolveTopLevelDecls has handled.
DcInserted == IF dcPc \in {"decls", "fatal"} /\ dcFunction = <<>> /\ dcCurScope = NewScope
              THEN 1..dcIdx ELSE 1..Len(dcNodes)

\* A sequence of names holds a name twice.
Repeats(names) ==
    \E i, j \in 1..Len(names) : i < j /\ names[i] = names[j]

\* C17: two top-level declarations of one kind and one name that went
\* into the same scope, in whatever sub-modules, end the run fatally; so
\* do two parameters or two local variables of one name in one scope of a
\* function.
C17_RedeclarationIsFatal ==
    /\ \A i, j \in DcInserted :
          (i < j /\ SameScopeSameName(i, j)) => dcPc = "fatal"
    /\ (/\ dcFunction # <<>>
        /\ \/ Repeats(dcFunction.Parameters)
           \/ Repeats(dcFunction.Locals)
           \/ /\ dcFunction.NonScoping
              /\ Repeats(dcFunction.Parameters \o dcFunction.Locals))
          => dcPc = "fatal"

\* The run is fatal on a function of sub-module y whose name a function of
\* sub-module x has, both with the attribute C.
C17_Witness ==
    /\ dcPc = "fatal" /\ dcIdx = 2
    /\ dcNodes[1].part = "x" /\ dcNodes[2].part = "y"
    /\ dcNodes[1].kind = "FunctionDecl" /\ dcNodes[1].C
    /\ SameScopeSameName(1, 2)

(***************************************************************************)
(* PART 10.  TypeReferenceMangledName on pointers of several levels and on *)
(* substitution types (mangle.go 26-119).  A mangled name is the sequence  *)
(* of the pieces the code concatenates.                                    *)
(***************************************************************************)

\* Most pointer levels put on a type.
MaxPointers == 2

\* n pointer levels on typ.
RECURSIVE PointersTo(_, _)
PointersTo(n, typ) == IF n = 0 THEN typ ELSE PointerOf(PointersTo(n - 1, typ))

\* n times "p".
PointerPrefix(n) == [i \in 1..n |-> "p"]

\* TypeReferenceMangledName(MANGLE_ARK_UNSTABLE, typ, gcon) for pointers,
\* tuples, named, primitive and substitution types.  The substitution
\* case assigns res, the other cases append to it.
RECURSIVE TypeMangledName(_, _)
TypeMangledName(typ, gcon) ==
    LET res == <<"_">> \o PointerPrefix(LevelsOfIndirection(typ))
        base == TypeWithoutPointers(typ)
        RECURSIVE Members(_)
        Members(ms) == IF ms = <<>> THEN <<>>
                       ELSE TypeMangledName(Head(ms), gcon) \o Members(Tail(ms))
    IN  CASE base.k = "tuple" ->
                res \o <<"T" \o ToString(Len(base.m))>> \o Members(base.m)
          [] base.k \in {"prim", "named"} ->
                res \o <<ToString(Len(base.n)) \o base.n>>
          [] base.k = "subst" ->
                IF gcon[base.n] # NilType
                THEN TypeMangledName(gcon[base.n], gcon)
                ELSE <<base.n>>

\* The types T: primitive, named, substitution types and tuples of one.
MnTypes ==
    LET leaves == {PRIMITIVE_int, NamedType("S", CurModule)}
                     \cup {SubstitutionType(n) : n \in SubstNames}
    IN  leaves \cup {tupleOf(<<t>>) : t \in leaves}

\* What a generic context may map a generic parameter to.
MnArguments == {NilType, PRIMITIVE_int, PointerOf(PRIMITIVE_int)}

MnInit ==
    /\ mnPc = {}
    /\ mnType \in MnTypes
    /\ mnLevels \in 1..MaxPointers
    /\ mnGcon \in [SubstNames -> MnArguments]
    /\ mnName = <<>>
    /\ mnPointerName = <<>>

MnSpecInit == MnInit /\ DrvIdle /\ NmIdle /\ VsIdle /\ MgIdle /\ InfIdle /\ ExIdle /\ RcIdle /\ MtIdle /\ DcIdle /\ PsIdle /\ ItIdle /\ SlIdle /\ IdIdle /\ LkIdle /\ ClIdle /\ LxIdle

\* The type T is mangled.
MnMangleType ==
    /\ "type" \notin mnPc
    /\ mnName' = TypeMangledName(mnType, mnGcon)
    /\ mnPc' = mnPc \cup {"type"}
    /\ UNCHANGED <<mnType, mnLevels, mnGcon, mnPointerName>>
    /\ UNCHANGED notMn

\* The pointer to T is mangled.
MnManglePointer ==
    /\ "pointer" \notin mnPc
    /\ mnPointerName' = TypeMangledName(PointersTo(mnLevels, mnType), mnGcon)
    /\ mnPc' = mnPc \cup {"pointer"}
    /\ UNCHANGED <<mnType, mnLevels, mnGcon, mnName>>
    /\ UNCHANGED notMn

MnNext == MnMangleType \/ MnManglePointer

SpecMangleType == MnSpecInit /\ [][MnNext]_vars

\* The encoding of a type in a longer name: its mangled name without the
\* leading "_".
EncodingIn(name) == IF name # <<>> /\ Head(name) = "_" THEN Tail(name) ELSE name

\* C18: the mangled name of a pointer to T is "_", one "p" per pointer
\* level, then the encoding of T, for substitution types as for the others.
C18_PointerPrefixPerLevel ==
    mnPc = {"type", "pointer"} =>
        mnPointerName = <<"_">> \o PointerPrefix(mnLevels) \o EncodingIn(mnName)

(***************************************************************************)
(* PART 11.  parseFiles and the phases of Build that follow it (main.go).  *)
(* The input is a module directory, module 1; what each module uses is     *)
(* what the parser reports for its files.  Resolve and Infer are recorded  *)
(* as calls only; what they do is PART 1.                                  *)
(***************************************************************************)

\* Number of modules that can be found on the search paths.
PsNMods == 3

PsMods == 1..PsNMods

\* parseFile without the call of AddDependency.
AddDependenciesNone(graph, module, deps) == graph

\* The loop of parseFile: depGraph.AddDependency(module.Name, depname) for
\* every dependency.
AddDependencies(graph, module, deps) ==
    graph \cup {<<module, d>> : d \in deps}

\* The members of a sequence.
PsRange(seq) == {seq[i] : i \in 1..Len(seq)}

\* A set as a sequence, smallest first: the order the parser reports the
\* dependencies in.
RECURSIVE PsSeqOf(_)
PsSeqOf(S) ==
    IF S = {} THEN <<>>
    ELSE LET m == CHOOSE x \in S : \A y \in S : x <= y
         IN  <<m>> \o PsSeqOf(S \ {m})

\* The modules reached from the set S along the edges of the graph, in at
\* least one step.
RECURSIVE PsReach(_, _, _)
PsReach(graph, S, n) ==
    LET next == {e[2] : e \in {f \in graph : f[1] \in S}}
    IN  IF n = 0 THEN {} ELSE next \cup PsReach(graph, next, n - 1)

\* DependencyGraph.DetectCycles finds something: a module depends on
\* itself along the dependencies added.
DetectCycles(graph) ==
    \E m \in PsMods : m \in PsReach(graph, {m}, PsNMods)

PsInit ==
    /\ psPc = "runtime"
    /\ psDeps \in [PsMods -> SUBSET PsMods]
    /\ \A m \in PsMods : m \notin psDeps[m]
    /\ psModulesToRead = <<1>>
    /\ psIdx = 1
    /\ psModules = <<>>
    /\ psDepGraph = {}
    /\ psCalled = {}

PsSpecInit == PsInit /\ DrvIdle /\ NmIdle /\ VsIdle /\ MgIdle /\ InfIdle /\ ExIdle /\ RcIdle /\ MtIdle /\ DcIdle /\ MnIdle /\ ItIdle /\ SlIdle /\ IdIdle /\ LkIdle /\ ClIdle /\ LxIdle

\* Build starts with LoadRuntime: the runtime module, module 0, which uses
\* no module, is constructed, resolved and inferred.
PsLoadRuntime ==
    /\ psPc = "runtime"
    /\ psCalled' = psCalled \cup {<<"Construct", 0>>, <<"Resolve", 0>>, <<"Infer", 0>>}
    /\ psPc' = "read"
    /\ UNCHANGED <<psDeps, psModulesToRead, psIdx, psModules, psDepGraph>>
    /\ UNCHANGED notPs

\* One round of the reading loop of parseFiles: a module that was read is
\* skipped, another one is created, its files are parsed and it is added
\* to the modules of the build.
PsReadModule ==
    /\ psPc = "read" /\ psIdx <= Len(psModulesToRead)
    /\ LET modname == psModulesToRead[psIdx]
       IN  IF modname \in PsRange(psModules)
           THEN UNCHANGED <<psModulesToRead, psModules, psDepGraph>>
           ELSE /\ psModulesToRead' = psModulesToRead \o PsSeqOf(psDeps[modname])
                /\ psDepGraph' = AddDependencies(psDepGraph, modname, psDeps[modname])
                /\ psModules' = Append(psModules, modname)
    /\ psIdx' = psIdx + 1
    /\ UNCHANGED <<psPc, psDeps, psCalled>>
    /\ UNCHANGED notPs

\* The check for cyclic dependencies after the loop: os.Exit on a cycle.
PsCheckCycles ==
    /\ psPc = "read" /\ psIdx > Len(psModulesToRead)
    /\ psPc' = IF DetectCycles(psDepGraph) THEN "exit" ELSE "construct"
    /\ UNCHANGED <<psDeps, psModulesToRead, psIdx, psModules, psDepGraph, psCalled>>
    /\ UNCHANGED notPs

\* The three loops over Context.modules: Construct in parseFiles, Resolve
\* and Infer in Build.
PsPhase(pc, fn, next) ==
    /\ psPc = pc
    /\ psCalled' = psCalled \cup {<<fn, m>> : m \in PsRange(psModules)}
    /\ psPc' = next
    /\ UNCHANGED <<psDeps, psModulesToRead, psIdx, psModules, psDepGraph>>
    /\ UNCHANGED notPs

PsConstruct == PsPhase("construct", "Construct", "resolve")

PsResolve == PsPhase("resolve", "Resolve", "infer")

PsInfer == PsPhase("infer", "Infer", "done")

PsNext ==
    \/ PsLoadRuntime \/ PsReadModule \/ PsCheckCycles
    \/ PsConstruct \/ PsResolve \/ PsInfer

SpecParse == PsSpecInit /\ [][PsNext]_vars

\* The import graph of the build: what the modules that module 1 reaches
\* use.
PsImportGraph ==
    LET used == {e \in PsMods \X PsMods : e[2] \in psDeps[e[1]]}
        built == {1} \cup PsReach(used, {1}, PsNMods)
    IN  {e \in used : e[1] \in built}

\* The import graph holds a cycle.
PsCyclic ==
    \E m \in PsMods : m \in PsReach(PsImportGraph, {m}, PsNMods)

ItMaxStmts == 2

ItMaxParams == 1

ItNil == [id |-> <<>>, kind |-> "nil"]

ItLeaf(id, kind) == [id |-> id, kind |-> kind]

ItBlock(id, nodes) == [id |-> id, kind |-> "Block", Nodes |-> nodes]

ItVariableDecl(id, assignment) ==
    [id |-> id, kind |-> "VariableDecl", Assignment |-> assignment]

ItLoopStat(id, condition, body) ==
    [id |-> id, kind |-> "LoopStat", Condition |-> condition, Body |-> body]

ItIfStat(id, exprs, bodies, else) ==
    [id |-> id, kind |-> "IfStat", Exprs |-> exprs, Bodies |-> bodies,
     Else |-> else]

\* MatchStat.Branches is a Go map from pattern to statement: a set of pairs.
ItMatchStat(id, target, branches) ==
    [id |-> id, kind |-> "MatchStat", Target |-> target,
     Branches |-> branches]

ItFunctionAccessExpr(id, receiverAccess) ==
    [id |-> id, kind |-> "FunctionAccessExpr",
     ReceiverAccess |-> receiverAccess]

ItCallExpr(id, function, arguments, receiverAccess) ==
    [id |-> id, kind |-> "CallExpr", Function |-> function,
     Arguments |-> arguments, ReceiverAccess |-> receiverAccess]

ItCallStat(id, call) == [id |-> id, kind |-> "CallStat", Call |-> call]

ItFunctionDecl(id, parameters, body) ==
    [id |-> id, kind |-> "FunctionDecl", Parameters |-> parameters,
     Body |-> body]

\* The statements at place k of a function body.  A method call a.f() leaves
\* the resolver, and Finalize, with the access to a both in the function
\* access and in CallExpr.ReceiverAccess (resolve.go 596-597, args.go 1336-1338).
ItStatements(k) ==
    {ItVariableDecl(<<k, 1>>, a) :
        a \in {ItNil, ItLeaf(<<k, 2>>, "NumericLiteral")}} \cup
    {ItLoopStat(<<k, 1>>, c, ItBlock(<<k, 3>>, <<>>)) :
        c \in {ItNil, ItLeaf(<<k, 2>>, "BoolLiteral")}} \cup
    {ItIfStat(<<k, 1>>, <<ItLeaf(<<k, 2>>, "BoolLiteral")>>,
              <<ItBlock(<<k, 3>>, <<>>)>>, e) :
        e \in {ItNil, ItBlock(<<k, 4>>, <<>>)}} \cup
    {ItMatchStat(<<k, 1>>, ItLeaf(<<k, 2>>, "VariableAccessExpr"),
                 {<<ItLeaf(<<k, 3>>, "EnumPatternExpr"),
                    ItLeaf(<<k, 4>>, "BreakStat")>>,
                  <<ItLeaf(<<k, 5>>, "DiscardAccessExpr"),
                    ItLeaf(<<k, 6>>, "NextStat")>>})} \cup
    {ItCallStat(<<k, 1>>,
                ItCallExpr(<<k, 2>>, ItFunctionAccessExpr(<<k, 3>>, r),
                           <<ItLeaf(<<k, 5>>, "NumericLiteral")>>, r)) :
        r \in {ItNil, ItLeaf(<<k, 4>>, "VariableAccessExpr")}}

ItSeqs(n, S(_)) == {q \in [1..n -> UNION {S(k) : k \in 1..n}] :
                      \A k \in 1..n : q[k] \in S(k)}

ItParameter(k) == {ItVariableDecl(<<0, 2 + k>>, ItNil)}

\* The sub-modules: one function with up to ItMaxParams parameters and up to
\* ItMaxStmts statements.
ItSubmodules ==
    {<<ItFunctionDecl(<<0, 1>>, ps, ItBlock(<<0, 2>>, ss))>> :
        ps \in UNION {ItSeqs(n, ItParameter) : n \in 0..ItMaxParams},
        ss \in UNION {ItSeqs(n, ItStatements) : n \in 1..ItMaxStmts}}

ItItem(op, node, field) == [op |-> op, node |-> node, field |-> field]

\* part_000 53-100: Visit, VisitExpr and VisitBlock return at once on nil.
ItVisit(n) == IF n = ItNil THEN <<>> ELSE <<ItItem("visit", n, "")>>

RECURSIVE ItVisitNodes(_)
\* part_000 29-51: VisitNodes, VisitExprs, VisitBlocks.
ItVisitNodes(nodes) ==
    IF nodes = <<>> THEN <<>>
    ELSE ItVisit(Head(nodes)) \o ItVisitNodes(Tail(nodes))

\* The assignment of what the visit returned to the field it came from.
ItAssign(n, field) == <<ItItem("write", n, field)>>

RECURSIVE ItPermutations(_)
ItPermutations(S) ==
    IF S = {} THEN {<<>>}
    ELSE UNION {{<<x>> \o q : q \in ItPermutations(S \ {x})} : x \in S}

RECURSIVE ItVisitBranches(_)
ItVisitBranches(branches) ==
    IF branches = <<>> THEN <<>>
    ELSE ItVisit(Head(branches)[1]) \o ItVisit(Head(branches)[2]) \o
         ItVisitBranches(Tail(branches))

\* part_000 264-279: the parameters, then the body (the function has no
\* receiver).
ItVisitFunction(n) ==
    LET RECURSIVE params(_)
        params(i) ==
           IF i > Len(n.Parameters) THEN <<>>
           ELSE ItVisit(n.Parameters[i]) \o ItAssign(n, "Parameters") \o
                params(i + 1)
    IN  params(1) \o ItVisit(n.Body) \o ItAssign(n, "Body")

\* part_000 110-262: the visits of the children of n and the assignments of
\* their results, in the order of the code; the branches of a match in the
\* order the Go map hands them out, any order.
ItVisitChildren(n) ==
    CASE n.kind = "Block" ->
           {ItVisitNodes(n.Nodes) \o ItAssign(n, "Nodes")}
      [] n.kind = "IfStat" ->
           {ItVisitNodes(n.Exprs) \o ItAssign(n, "Exprs") \o
            ItVisitNodes(n.Bodies) \o ItAssign(n, "Bodies") \o
            ItVisit(n.Else) \o ItAssign(n, "Else")}
      [] n.kind = "LoopStat" ->
           {ItVisit(n.Body) \o ItAssign(n, "Body") \o
            (IF n.Condition = ItNil THEN <<>>
             ELSE ItVisit(n.Condition) \o ItAssign(n, "Condition"))}
      [] n.kind = "MatchStat" ->
           {ItVisit(n.Target) \o ItAssign(n, "Target") \o
            ItVisitBranches(q) \o ItAssign(n, "Branches") :
              q \in ItPermutations(n.Branches)}
      [] n.kind = "CallExpr" ->
           {ItVisit(n.Function) \o ItAssign(n, "Function") \o
            ItVisitNodes(n.Arguments) \o ItAssign(n, "Arguments") \o
            ItVisit(n.ReceiverAccess) \o ItAssign(n, "ReceiverAccess")}
      [] n.kind = "CallStat" -> {ItVisit(n.Call) \o ItAssign(n, "Call")}
      [] n.kind = "FunctionDecl" -> {ItVisitFunction(n)}
      [] n.kind = "VariableDecl" ->
           {ItVisit(n.Assignment) \o ItAssign(n, "Assignment")}
      [] n.kind = "FunctionAccessExpr" ->
           {ItVisit(n.ReceiverAccess) \o ItAssign(n, "ReceiverAccess")}
      [] OTHER -> {<<>>}

ItInit ==
    /\ itPc = "start"
    /\ itSubmodule \in ItSubmodules
    /\ itTodo = <<>>
    /\ itCons = "call"
    /\ itCur = ItNil
    /\ itRecv = <<>>

ItSpecInit == ItInit /\ DrvIdle /\ NmIdle /\ VsIdle /\ MgIdle /\ InfIdle /\ ExIdle /\ RcIdle /\ MtIdle /\ DcIdle /\ MnIdle /\ PsIdle /\ SlIdle /\ IdIdle /\ LkIdle /\ ClIdle /\ LxIdle

\* args.go 1467 and part_000 282-288, 294-298: Finalize calls IterNodes, which
\* makes the channel and starts the goroutine on run: VisitSubmodule, close.
IterNodes ==
    /\ itCons = "call"
    /\ itCons' = "recv"
    /\ itPc' = "run"
    /\ itTodo' = ItVisitNodes(itSubmodule) \o
                 <<ItItem("write", ItNil, "Nodes"), ItItem("close", ItNil, "")>>
    /\ UNCHANGED <<itSubmodule, itCur, itRecv>>
    /\ UNCHANGED notIt

ItHead(op) == itPc = "run" /\ itTodo # <<>> /\ Head(itTodo).op = op

\* part_000 300-303 and args.go 1467-1468: the goroutine sends the node it
\* visits and the loop receives it, in one step (the channel has no buffer);
\* the goroutine goes on with the children, the loop with its body.
ItSend ==
    /\ ItHead("visit") /\ itCons = "recv"
    /\ LET n == Head(itTodo).node
       IN /\ \E children \in ItVisitChildren(n) :
               itTodo' = children \o Tail(itTodo)
          /\ itRecv' = Append(itRecv, n.id)
          /\ itCur' = n
          /\ itCons' = IF n.kind = "VariableDecl" THEN "read" ELSE "recv"
    /\ UNCHANGED <<itPc, itSubmodule>>
    /\ UNCHANGED notIt

\* part_000 23-27, 110-279: the goroutine stores what a visit returned in the
\* field of the parent.
ItWrite ==
    /\ ItHead("write")
    /\ itTodo' = Tail(itTodo)
    /\ UNCHANGED <<itPc, itSubmodule, itCons, itCur, itRecv>>
    /\ UNCHANGED notIt

\* part_000 297: the channel is closed and the goroutine ends.
ItClose ==
    /\ ItHead("close")
    /\ itPc' = "ended"
    /\ itTodo' = Tail(itTodo)
    /\ UNCHANGED <<itSubmodule, itCons, itCur, itRecv>>
    /\ UNCHANGED notIt

\* args.go 1469: the loop reads varDecl.Assignment.
ItReadAssignment ==
    /\ itCons = "read"
    /\ itCons' = IF itCur.Assignment = ItNil THEN "recv" ELSE "set"
    /\ UNCHANGED <<itPc, itSubmodule, itTodo, itCur, itRecv>>
    /\ UNCHANGED notIt

\* args.go 1470: the loop assigns varDecl.Variable.Type.
ItSetType ==
    /\ itCons = "set"
    /\ itCons' = "recv"
    /\ UNCHANGED <<itPc, itSubmodule, itTodo, itCur, itRecv>>
    /\ UNCHANGED notIt

\* args.go 1467: the range loop ends on the closed channel.
ItRangeEnd ==
    /\ itCons = "recv" /\ itPc = "ended"
    /\ itCons' = "done"
    /\ UNCHANGED <<itPc, itSubmodule, itTodo, itCur, itRecv>>
    /\ UNCHANGED notIt

ItNext ==
    \/ IterNodes \/ ItSend \/ ItWrite \/ ItClose
    \/ ItReadAssignment \/ ItSetType \/ ItRangeEnd

SpecIter == ItSpecInit /\ [][ItNext]_vars

(***************************************************************************)
(* Properties of IterNodes and of the order of the visits.                 *)
(***************************************************************************)
\* The field the goroutine is about to write, the fields the loop of Finalize
\* is about to read or write: both steps can be taken next, in either order.
ItGoroutineWrites ==
    IF ItHead("write")
      THEN {<<Head(itTodo).node.id, Head(itTodo).field>>} ELSE {}

ItLoopAccesses ==
    CASE itCons = "read" -> {<<itCur.id, "Assignment">>}
      [] itCons = "set" -> {<<itCur.id, "Variable.Type">>,
                            <<itCur.Assignment.id, "Type">>}
      [] OTHER -> {}

\* C21: the middle-end has one thread of control: at no time do two of them
\* access the same field of the same node with one of them writing, also not
\* while Finalize ranges over IterNodes and assigns the variable types.
C21_NoConcurrentAccess == ItGoroutineWrites \cap ItLoopAccesses = {}

ItChildren(n) ==
    {it.node : it \in UNION {{q[i] : i \in 1..Len(q)} :
                                q \in ItVisitChildren(n)}} \ {n, ItNil}

RECURSIVE ItReachable(_)
\* The nodes reachable from a set of nodes.
ItReachable(S) ==
    S \cup UNION {ItReachable(ItChildren(n)) : n \in S}

ItAllNodes == ItReachable({itSubmodule[i] : i \in 1..Len(itSubmodule)})

ItTimes(id) == Cardinality({i \in 1..Len(itRecv) : itRecv[i] = id})

\* C22: the loop over IterNodes receives every node reachable from the node
\* list of the sub-module exactly once, and when it ends the goroutine has
\* closed the channel and ended.
C22_EveryNodeOnce ==
    itCons = "done" =>
       /\ itPc = "ended" /\ itTodo = <<>>
       /\ \A n \in ItAllNodes : ItTimes(n.id) = 1

\* The place of the first visit of a node, 0 when it was not visited.
ItPlace(n) ==
    IF \E i \in 1..Len(itRecv) : itRecv[i] = n.id
      THEN CHOOSE i \in 1..Len(itRecv) :
              itRecv[i] = n.id /\ \A j \in 1..(i - 1) : itRecv[j] # n.id
      ELSE 0

ItBefore(a, b) == ItPlace(a) < ItPlace(b)

\* The one order of the branches of a match statement.
ItFixedOrder(branches) == CHOOSE q \in ItPermutations(branches) : TRUE

\* C23: the children are visited in one fixed order with the condition before
\* the body: the condition of a conditional loop before its body, the
\* conditions of an if statement before its bodies, the branches of a match
\* statement in one fixed order.
C23_ConditionBeforeBody ==
    itCons = "done" =>
       \A n \in ItAllNodes :
          /\ (n.kind = "LoopStat" /\ n.Condition # ItNil) =>
                ItBefore(n.Condition, n.Body)
          /\ n.kind = "IfStat" =>
                \A i \in 1..Len(n.Exprs), j \in 1..Len(n.Bodies) :
                   ItBefore(n.Exprs[i], n.Bodies[j])
          /\ n.kind = "MatchStat" =>
                LET q == ItFixedOrder(n.Branches)
                IN \A i \in 1..(Len(q) - 1) : ItBefore(q[i][1], q[i + 1][1])

(***************************************************************************)
(* PART 13.  Inferrer.Solve (args.go 1050-1073) on a list of constraints,  *)
(* one SolveStep (1075-1231) at a time.  The types are those of PART 5     *)
(* with pointers and references; there are no simple constraints.          *)
(***************************************************************************)
MaxConstraints == 2

\* The loop of Solve is followed for this many steps.
MaxSolveSteps == 8

SlIndirections(addressee) ==
    {PointerType(addressee, mu) : mu \in BOOLEAN} \cup
    {ReferenceType(addressee, mu) : mu \in BOOLEAN}

\* The sides of the constraints: two type variables, int, tuples over them,
\* pointers and references to a variable and to int.
SlSides ==
    {TypeVariable(1), TypeVariable(2), PRIMITIVE_int,
     tupleOf(<<TypeVariable(1), TypeVariable(1)>>),
     tupleOf(<<TypeVariable(1), TypeVariable(2)>>)} \cup
    SlIndirections(TypeVariable(1)) \cup SlIndirections(PRIMITIVE_int)

SlConstraintLists ==
    UNION {[1..n -> {Constraint(l, r) : l, r \in SlSides}] :
             n \in 1..MaxConstraints}

SlInit ==
    /\ slPc = "start"
    /\ slConstraints \in SlConstraintLists
    /\ slStack = <<>>
    /\ slSubs = <<>>
    /\ slElement = <<>>
    /\ slPushed = <<>>
    /\ slHeads = <<>>

SlSpecInit == SlInit /\ DrvIdle /\ NmIdle /\ VsIdle /\ MgIdle /\ InfIdle /\ ExIdle /\ RcIdle /\ MtIdle /\ DcIdle /\ MnIdle /\ PsIdle /\ ItIdle /\ IdIdle /\ LkIdle /\ ClIdle /\ LxIdle

\* args.go 1051-1061: the constraints are copied to the stack.
SlSolve ==
    /\ slPc = "start"
    /\ slPc' = "loop"
    /\ slStack' = slConstraints
    /\ UNCHANGED <<slConstraints, slSubs, slElement, slPushed, slHeads>>
    /\ UNCHANGED notSl

\* args.go 1064-1069: the first constraint is taken off the stack and handed
\* to SolveStep.
SlSolveStep ==
    /\ slPc = "loop" /\ slStack # <<>>
    /\ IF Len(slHeads) >= MaxSolveSteps
         THEN /\ slPc' = "cutoff"
              /\ UNCHANGED <<slStack, slSubs, slElement, slPushed, slHeads>>
         ELSE LET r == SolveStep(Tail(slStack), slSubs, TRUE, Head(slStack))
              IN /\ slStack' = r[1]
                 /\ slSubs' = r[2]
                 /\ slElement' = Head(slStack)
                 /\ slPushed' = SubSeq(r[1], Len(slStack), Len(r[1]))
                 /\ slHeads' = Append(slHeads, slStack)
                 /\ UNCHANGED slPc
    /\ UNCHANGED slConstraints
    /\ UNCHANGED notSl

\* args.go 1063, 1072: the stack is empty and Solve returns the substitutions.
SlSolveReturn ==
    /\ slPc = "loop" /\ slStack = <<>>
    /\ slPc' = "done"
    /\ UNCHANGED <<slConstraints, slStack, slSubs, slElement, slPushed, slHeads>>
    /\ UNCHANGED notSl

SlNext == SlSolve \/ SlSolveStep \/ SlSolveReturn

SpecSolve == SlSpecInit /\ [][SlNext]_vars

(***************************************************************************)
(* Properties of Solve and SolveStep.                                      *)
(***************************************************************************)
SlIndirection(side) == side.k \in {"ptr", "ref"}

\* C24: a step reduces a constraint between two indirection types to the
\* constraint between their element types only when both are pointers or
\* both are references, and of the same mutability.
C24_SameIndirectionOnly ==
    (/\ slElement # <<>>
     /\ SlIndirection(slElement.Left) /\ SlIndirection(slElement.Right)
     /\ slPushed # <<>>)
    => /\ slElement.Left.k = slElement.Right.k
       /\ slElement.Left.IsMutable = slElement.Right.IsMutable

\* C26: Solve terminates: the loop never has a work stack again that it had
\* before (what the loop does depends on the stack alone, so with a stack
\* that comes back it runs forever), and it ends within the steps followed.
C26_SolveTerminates ==
    /\ slPc # "cutoff"
    /\ \A i, j \in 1..Len(slHeads) : i < j => slHeads[i] # slHeads[j]

(***************************************************************************)
(* PART 14.  The type variable ids of one Inferrer (args.go 687-708,       *)
(* 532-572, 894-900, 1305-1308).  A typed node is a variable, a literal or *)
(* the access to a variable; the statements are variable declarations and  *)
(* destructuring declarations of two targets.                              *)
(***************************************************************************)
IdMaxStmts == 3

IdVariable(n) == [kind |-> "Variable", n |-> n]

\* The expression of statement s: a literal or the access to a variable.
IdLiteral(s) == [kind |-> "NumericLiteral", n |-> s]

IdVariableAccessExpr(s, variable) ==
    [kind |-> "VariableAccessExpr", n |-> s, Variable |-> variable]

IdExprs(s) ==
    {IdLiteral(s)} \cup
    {IdVariableAccessExpr(s, IdVariable(n)) : n \in 1..idVariables}

IdInferrer ==
    [IdCount |-> idCount, Typeds |-> idTypeds, TypedLookup |-> idTypedLookup]

\* args.go 687-691: the result is <<id, inferrer>>.
GetDiscardingId(inf) == <<inf.IdCount, [inf EXCEPT !.IdCount = @ + 1]>>

\* args.go 698-708: a node seen before keeps its id, a new one is recorded
\* under the next id.
IdAnnotate(inf, typed) ==
    IF typed \in DOMAIN inf.TypedLookup
      THEN <<inf.TypedLookup[typed], inf>>
      ELSE <<inf.IdCount,
             [IdCount |-> inf.IdCount + 1,
              Typeds |-> inf.IdCount :> typed @@ inf.Typeds,
              TypedLookup |-> typed :> inf.IdCount @@ inf.TypedLookup]>>

\* args.go 698-708 and 894-900: the access to a variable handles the variable.
HandleTyped(inf, typed) ==
    LET r == IdAnnotate(inf, typed)
    IN  IF typed \notin DOMAIN inf.TypedLookup /\
           typed.kind = "VariableAccessExpr"
          THEN <<r[1], IdAnnotate(r[2], typed.Variable)[2]>>
          ELSE r

IdStore(inf) ==
    /\ idCount' = inf.IdCount
    /\ idTypeds' = inf.Typeds
    /\ idTypedLookup' = inf.TypedLookup

IdInit ==
    /\ idPc = "visit"
    /\ idCount = 0
    /\ idTypeds = <<>>
    /\ idTypedLookup = <<>>
    /\ idVariables = 0
    /\ idVisited = 0
    /\ idIdx = 0

IdSpecInit == IdInit /\ DrvIdle /\ NmIdle /\ VsIdle /\ MgIdle /\ InfIdle /\ ExIdle /\ RcIdle /\ MtIdle /\ DcIdle /\ MnIdle /\ PsIdle /\ ItIdle /\ SlIdle /\ LkIdle /\ ClIdle /\ LxIdle

\* args.go 532-547: the assignment, then the variable.
IdVisitVariableDecl ==
    /\ idPc = "visit" /\ idVisited < IdMaxStmts
    /\ \E assignment \in IdExprs(idVisited + 1) :
          LET a == HandleTyped(IdInferrer, assignment)
              v == HandleTyped(a[2], IdVariable(idVariables + 1))
          IN  IdStore(v[2])
    /\ idVariables' = idVariables + 1
    /\ idVisited' = idVisited + 1
    /\ UNCHANGED <<idPc, idIdx>>
    /\ UNCHANGED notId

\* One target of a DestructVarDecl (args.go 562-570).
IdTarget(inf, shouldDiscard, variable) ==
    IF shouldDiscard THEN GetDiscardingId(inf)[2]
    ELSE HandleTyped(inf, variable)[2]

\* args.go 549-572: the assignment, then, unless its type is a tuple type
\* already, an id for each of the two targets.
IdVisitDestructVarDecl ==
    /\ idPc = "visit" /\ idVisited < IdMaxStmts
    /\ \E assignment \in IdExprs(idVisited + 1), known \in BOOLEAN,
          ShouldDiscard \in [1..2 -> BOOLEAN] :
          LET a == HandleTyped(IdInferrer, assignment)[2]
              t1 == IdTarget(a, ShouldDiscard[1], IdVariable(idVariables + 1))
              t2 == IdTarget(t1, ShouldDiscard[2], IdVariable(idVariables + 2))
          IN  IdStore(IF known THEN a ELSE t2)
    /\ idVariables' = idVariables + 2
    /\ idVisited' = idVisited + 1
    /\ UNCHANGED <<idPc, idIdx>>
    /\ UNCHANGED notId

\* args.go 460-464: the visitor has reached every node, Infer calls Finalize.
IdFinalize ==
    /\ idPc = "visit"
    /\ idPc' = "touchups"
    /\ idIdx' = 0
    /\ UNCHANGED <<idCount, idTypeds, idTypedLookup, idVariables, idVisited>>
    /\ UNCHANGED notId

\* args.go 1305-1308: `ann := v.Typeds[idx]` and the switch on ann.Typed; ann
\* is nil for an id that is no key of the map, and the switch panics on it.
IdTouchUp ==
    /\ idPc = "touchups"
    /\ IF idIdx >= idCount
         THEN idPc' = "done" /\ UNCHANGED idIdx
         ELSE IF idIdx \in DOMAIN idTypeds
           THEN idIdx' = idIdx + 1 /\ UNCHANGED idPc
           ELSE idPc' = "panic" /\ UNCHANGED idIdx
    /\ UNCHANGED <<idCount, idTypeds, idTypedLookup, idVariables, idVisited>>
    /\ UNCHANGED notId

IdNext ==
    \/ IdVisitVariableDecl \/ IdVisitDestructVarDecl \/ IdFinalize
    \/ IdTouchUp

SpecIds == IdSpecInit /\ [][IdNext]_vars

\* C25: the ids of an inferrer are dense: every id below IdCount stands for
\* exactly one recorded typed node, no two ids for the same node, no node
\* under two ids, and the loop of Finalize finds a typed node for each id.
C25_IdsDense ==
    /\ DOMAIN idTypeds = 0..(idCount - 1)
    /\ \A i, j \in DOMAIN idTypeds : i # j => idTypeds[i] # idTypeds[j]
    /\ \A typed \in DOMAIN idTypedLookup :
          idTypeds[idTypedLookup[typed]] = typed
    /\ idPc # "panic"

(***************************************************************************)
(* PART 15.  ModuleLookup.Get and Create (ast/module.go 46-75), the        *)
(* reading loop of parseFiles and parseFile (main.go 258-304, 345-348)     *)
(* and the lookup of a used module by the resolver (ast/resolve.go         *)
(* 100-109).  A module name is the sequence of its parts; every module has *)
(* its directory and one file.                                             *)
(***************************************************************************)
LkMaxUses == 2

LkInput == <<"m">>

LkUsable == {<<"a">>, <<"a", "b">>, <<"b">>}

LkNames == {LkInput} \cup LkUsable

LkNoModule == <<"nil">>

LkUseLists(n) == UNION {[1..k -> LkUsable] : k \in 0..n}

LkPrefixes(name) == {SubSeq(name, 1, k) : k \in 1..Len(name)}

\* ast/module.go 46-60: the walk succeeds when every part finds a child.
LkGet(children, name) == LkPrefixes(name) \subseteq children

\* ast/module.go 62-75: the nodes after Create; a node that is new has no
\* Module.
LkCreate(children, name) == children \cup LkPrefixes(name)

LkInit ==
    /\ lkPc = "read"
    /\ lkUses \in [LkNames -> LkUseLists(LkMaxUses)]
    /\ \A name \in LkUsable : Len(lkUses[name]) <= 1
    /\ lkModulesToRead = <<LkInput>>
    /\ lkIdx = 1
    /\ lkChildren = {}
    /\ lkModule = [name \in LkNames |-> LkNoModule]
    /\ lkRead = [name \in LkNames |-> 0]
    /\ lkResolved = {}

LkSpecInit == LkInit /\ DrvIdle /\ NmIdle /\ VsIdle /\ MgIdle /\ InfIdle /\ ExIdle /\ RcIdle /\ MtIdle /\ DcIdle /\ MnIdle /\ PsIdle /\ ItIdle /\ SlIdle /\ IdIdle /\ ClIdle /\ LxIdle

\* main.go 258-304: one round of the reading loop.  A name that Get finds is
\* skipped; otherwise the module is registered, its file parsed, and the
\* modules its file uses are appended to modulesToRead (345-348).
LkReadModule ==
    /\ lkPc = "read" /\ lkIdx <= Len(lkModulesToRead)
    /\ LET modname == lkModulesToRead[lkIdx]
       IN  IF LkGet(lkChildren, modname)
             THEN UNCHANGED <<lkModulesToRead, lkChildren, lkModule, lkRead>>
             ELSE /\ lkChildren' = LkCreate(lkChildren, modname)
                  /\ lkModule' = [lkModule EXCEPT ![modname] = modname]
                  /\ lkRead' = [lkRead EXCEPT ![modname] = @ + 1]
                  /\ lkModulesToRead' = lkModulesToRead \o lkUses[modname]
    /\ lkIdx' = lkIdx + 1
    /\ UNCHANGED <<lkPc, lkUses, lkResolved>>
    /\ UNCHANGED notLk

\* main.go 258: the loop ends when i has reached the end of modulesToRead.
LkDrained ==
    /\ lkPc = "read" /\ lkIdx > Len(lkModulesToRead)
    /\ lkPc' = "resolve"
    /\ UNCHANGED <<lkUses, lkModulesToRead, lkIdx, lkChildren, lkModule, lkRead, lkResolved>>
    /\ UNCHANGED notLk

LkLoaded == {name \in LkNames : lkRead[name] > 0}

LkDirectives == {<<name, i>> : name \in LkLoaded, i \in 1..LkMaxUses} \cap
                {d \in LkNames \X (1..LkMaxUses) : d[2] <= Len(lkUses[d[1]])}

\* ast/resolve.go 100-109: the used module is looked up and resolved; Resolve
\* reads `mod.resolved` (62) and panics on a nil Module, and a name that Get
\* does not find panics at 107.
LkResolveUse ==
    /\ lkPc = "resolve"
    /\ \E d \in LkDirectives \ lkResolved :
          LET modName == lkUses[d[1]][d[2]]
          IN  IF LkGet(lkChildren, modName) /\ lkModule[modName] # LkNoModule
                THEN lkResolved' = lkResolved \cup {d} /\ UNCHANGED lkPc
                ELSE lkPc' = "panic" /\ UNCHANGED lkResolved
    /\ UNCHANGED <<lkUses, lkModulesToRead, lkIdx, lkChildren, lkModule, lkRead>>
    /\ UNCHANGED notLk

LkResolved ==
    /\ lkPc = "resolve" /\ LkDirectives = lkResolved
    /\ lkPc' = "done"
    /\ UNCHANGED <<lkUses, lkModulesToRead, lkIdx, lkChildren, lkModule, lkRead, lkResolved>>
    /\ UNCHANGED notLk

LkNext == LkReadModule \/ LkDrained \/ LkResolveUse \/ LkResolved

SpecLookup == LkSpecInit /\ [][LkNext]_vars

\* C27: once the list of modules to read has drained, every module named by a
\* use directive of a loaded file has been read exactly once and is in the
\* lookup with a Module that is not nil, and resolving a use directive finds
\* a Module, whatever the order of the directives.
C27_UsedModulesLoaded ==
    /\ lkPc \in {"resolve", "done", "panic"} =>
          \A d \in LkDirectives :
             LET modName == lkUses[d[1]][d[2]]
             IN  /\ LkGet(lkChildren, modName)
                 /\ lkModule[modName] # LkNoModule
                 /\ lkRead[modName] = 1
    /\ lkPc # "panic"

(***************************************************************************)
(* PART 16.  The CallExpr case of HandleTyped for a callee without a type  *)
(* (args.go 778-842) and the unification of the function type it builds    *)
(* with the type of the callee (SolveStep 4.4, args.go 1166-1211).  The    *)
(* call is `r.f(a1, ...)`; the type of f becomes known by a constraint of   *)
(* its own, before or after the call is visited.                           *)
(***************************************************************************)
ClMaxArgs == 2

ClTypes == {PRIMITIVE_bool, PRIMITIVE_int, PRIMITIVE_f64}

ClCallees ==
    {MethodType(receiver, ps, return, FALSE) :
        receiver \in ClTypes,
        ps \in SeqsUpTo({PRIMITIVE_bool, PRIMITIVE_int}, ClMaxArgs),
        return \in ClTypes}

\* The ids HandleTyped hands out: the call, then its Function, then its
\* ReceiverAccess, then the arguments.
ClCallId == 0

ClFnId == 1

ClRecieverId == 2

ClArgIds(n) == [i \in 1..n |-> ClRecieverId + i]

ClInit ==
    /\ clPc = "visit"
    /\ clCallee \in ClCallees
    /\ clFnType = <<>>
    /\ clArguments = <<>>
    /\ clConstraints = <<>>
    /\ clSubstitutions = <<>>

ClSpecInit == ClInit /\ DrvIdle /\ NmIdle /\ VsIdle /\ MgIdle /\ InfIdle /\ ExIdle /\ RcIdle /\ MtIdle /\ DcIdle /\ MnIdle /\ PsIdle /\ ItIdle /\ SlIdle /\ IdIdle /\ LkIdle /\ LxIdle

\* args.go 829-836: the function type of the call.  Return and Receiver are
\* both the type variable of ann.Id, the id of the call.
ClFunctionTypeOfCall(annId, recieverId, argIds) ==
    IF recieverId # -1
      THEN MethodType(TypeVariable(annId),
                      [i \in 1..Len(argIds) |-> TypeVariable(argIds[i])],
                      TypeVariable(annId), FALSE)
      ELSE FunctionType([i \in 1..Len(argIds) |-> TypeVariable(argIds[i])],
                        TypeVariable(annId), FALSE)

\* args.go 812-842: the call is visited; its callee has no type.
ClHandleCallExpr ==
    /\ clPc = "visit" /\ clFnType = <<>>
    /\ \E n \in 0..ClMaxArgs :
          /\ clArguments' = ClArgIds(n)
          /\ clFnType' = ClFunctionTypeOfCall(ClCallId, ClRecieverId, ClArgIds(n))
          /\ clConstraints' =
                Append(clConstraints,
                       Constraint(TypeVariable(ClFnId),
                                  ClFunctionTypeOfCall(ClCallId, ClRecieverId,
                                                       ClArgIds(n))))
    /\ UNCHANGED <<clPc, clCallee, clSubstitutions>>
    /\ UNCHANGED notCl

\* The constraint that gives the callee its type.
ClCalleeKnown ==
    /\ clPc = "visit"
    /\ \A i \in 1..Len(clConstraints) : clConstraints[i].Right # clCallee
    /\ clConstraints' =
          Append(clConstraints, Constraint(TypeVariable(ClFnId), clCallee))
    /\ UNCHANGED <<clPc, clCallee, clFnType, clArguments, clSubstitutions>>
    /\ UNCHANGED notCl

\* args.go 1050-1073: Solve on the two constraints.
ClSolve ==
    /\ clPc = "visit" /\ Len(clConstraints) = 2
    /\ clSubstitutions' = Solve(clConstraints, <<>>)
    /\ clPc' = "done"
    /\ UNCHANGED <<clCallee, clFnType, clArguments, clConstraints>>
    /\ UNCHANGED notCl

ClNext == ClHandleCallExpr \/ ClCalleeKnown \/ ClSolve

SpecCall == ClSpecInit /\ [][ClNext]_vars

\* The type the substitutions give an id: nil when there is none.
ClTypeOf(id) ==
    LET found == {i \in 1..Len(clSubstitutions) :
                     clSubstitutions[i].Left = TypeVariable(id)}
    IN  IF found = {} THEN NilType
        ELSE clSubstitutions[CHOOSE i \in found : \A j \in found : j <= i].Right

\* C29: the function type built for a call with an untyped callee has the
\* result variable of the call as return type, the variables of the
\* arguments as parameters, in order, and the variable of the receiver
\* expression as receiver; after solving the call has the return type of the
\* callee and the receiver expression the receiver type of the callee.
C29_CallUnifiedWithCallee ==
    /\ clFnType # <<>> =>
          /\ clFnType.r = TypeVariable(ClCallId)
          /\ clFnType.p = [i \in 1..Len(clArguments) |-> TypeVariable(clArguments[i])]
          /\ HasReceiver(clFnType)
          /\ clFnType.Receiver = TypeVariable(ClRecieverId)
    /\ clPc = "done" =>
          /\ ClTypeOf(ClCallId) = clCallee.r
          /\ ClTypeOf(ClRecieverId) = clCallee.Receiver

(***************************************************************************)
(* PART 17.  lexer.skipBlockComment with peek and consume (lexer/lexer.go  *)
(* 39-59, 162-203), run at the start of a file of at most LxMaxLen          *)
(* characters.  errPos ends the process.                                   *)
(***************************************************************************)
LxMaxLen == 5

LxChars == {"/", "*", "x"}

LxEOF == "EOF"

\* lexer.go 39-48: the character `ahead` places after endPos, 0 past the end.
LxPeek(contents, endPos, ahead) ==
    IF endPos + ahead >= Len(contents) THEN LxEOF
    ELSE contents[endPos + ahead + 1]

LxIsEOF(r) == r = LxEOF

LxInit ==
    /\ lxPc = "start"
    /\ lxContents \in SeqsUpTo(LxChars, LxMaxLen)
    /\ lxEndPos = 0
    /\ lxDepth = 0

LxSpecInit == LxInit /\ DrvIdle /\ NmIdle /\ VsIdle /\ MgIdle /\ InfIdle /\ ExIdle /\ RcIdle /\ MtIdle /\ DcIdle /\ MnIdle /\ PsIdle /\ ItIdle /\ SlIdle /\ IdIdle /\ LkIdle /\ ClIdle

\* lexer.go 165-179: no comment here, or the two characters of `/*` are
\* consumed and the depth is 1.
LxSkipBlockComment ==
    /\ lxPc = "start"
    /\ IF LxPeek(lxContents, lxEndPos, 0) # "/" \/ LxPeek(lxContents, lxEndPos, 1) # "*"
         THEN lxPc' = "none" /\ UNCHANGED <<lxEndPos, lxDepth>>
         ELSE lxPc' = "loop" /\ lxEndPos' = lxEndPos + 2 /\ lxDepth' = 1
    /\ UNCHANGED lxContents
    /\ UNCHANGED notLx

\* lexer.go 180-201: one round of the loop.  After the test for the end of
\* the file, an opening `/*` is consumed, then a closing `*/`, then one
\* character more, whatever it is.
LxRound ==
    /\ lxPc = "loop" /\ lxDepth > 0
    /\ IF LxIsEOF(LxPeek(lxContents, lxEndPos, 0))
         THEN lxPc' = "error" /\ UNCHANGED <<lxEndPos, lxDepth>>
         ELSE LET opens == /\ LxPeek(lxContents, lxEndPos, 0) = "/"
                           /\ LxPeek(lxContents, lxEndPos, 1) = "*"
                  pos1 == IF opens THEN lxEndPos + 2 ELSE lxEndPos
                  depth1 == IF opens THEN lxDepth + 1 ELSE lxDepth
                  closes == /\ LxPeek(lxContents, pos1, 0) = "*"
                            /\ LxPeek(lxContents, pos1, 1) = "/"
                  pos2 == IF closes THEN pos1 + 2 ELSE pos1
                  depth2 == IF closes THEN depth1 - 1 ELSE depth1
              IN  /\ lxEndPos' = pos2 + 1
                  /\ lxDepth' = depth2
                  /\ UNCHANGED lxPc
    /\ UNCHANGED lxContents
    /\ UNCHANGED notLx

\* lexer.go 180, 197-202: the depth is 0, the comment is skipped.
LxReturn ==
    /\ lxPc = "loop" /\ lxDepth <= 0
    /\ lxPc' = "done"
    /\ UNCHANGED <<lxContents, lxEndPos, lxDepth>>
    /\ UNCHANGED notLx

LxNext == LxSkipBlockComment \/ LxRound \/ LxReturn

SpecLexer == LxSpecInit /\ [][LxNext]_vars

\* The end of the block comment that opens at position 0: the position after
\* the `*/` that brings the count of open `/*` to 0, or -1 when there is
\* none.  pos is the position read next, depth the count of open comments.
RECURSIVE LxCommentEnd(_, _, _)
LxCommentEnd(contents, pos, depth) ==
    IF pos >= Len(contents) THEN -1
    ELSE IF pos + 1 < Len(contents) /\ contents[pos + 1] = "/" /\ contents[pos + 2] = "*"
      THEN LxCommentEnd(contents, pos + 2, depth + 1)
    ELSE IF pos + 1 < Len(contents) /\ contents[pos + 1] = "*" /\ contents[pos + 2] = "/"
      THEN IF depth = 1 THEN pos + 2
           ELSE LxCommentEnd(contents, pos + 2, depth - 1)
    ELSE LxCommentEnd(contents, pos + 1, depth)

\* C30: started at an opening `/*`, skipBlockComment ends with endPos right
\* after the `*/` that closes the comment, nested pairs counted, so that the
\* next character is the first of the next token; a comment that is not
\* closed is a lexer error and only such a comment is.
C30_CommentConsumedExactly ==
    /\ lxPc = "done" => lxEndPos = LxCommentEnd(lxContents, 2, 1)
    /\ lxPc = "error" => LxCommentEnd(lxContents, 2, 1) = -1

====
